---------------------------- MODULE Spec2Model ----------------------------
(***************************************************************************)
(* A model of list-lca: the material matcher and impact calculator of the  *)
(* /api/lca-data route, and the row engine of ConstructionLCACalculator /  *)
(* ResultsTable (ingest, manual override, unit change, delete, grouping,   *)
(* reinforcement derivation).                                              *)
(*                                                                         *)
(* Representation of values                                                *)
(*   - a JS string is a TLA+ string; toLowerCase, trim, includes and split *)
(*     are computed character by character;                                *)
(*   - a JS number n (quantity, kg, density, co2, ubp, kwh) is the integer *)
(*     n * Scale (fixed point), so 2.5 is 25 when Scale = 10; a product of *)
(*     two numbers is Mul(a, b); the inputs are chosen so that no product  *)
(*     needs rounding;                                                     *)
(*   - a match score s is the integer s * 100; the float sum 0.3+0.3+0.3,  *)
(*     which is 0.8999999999999999 in IEEE arithmetic, is 89;              *)
(*   - null of a nullable number is Null, NaN is NaN, and a number or a     *)
(*     string a row object lacks (undefined) is Undefined or Undef.        *)
(***************************************************************************)
EXTENDS Integers, Sequences, FiniteSets, TLC

VARIABLES
    csvData,          \* useState csvData: the uploaded cells, row by row
    hasHeaders,       \* csvHeaders.length > 0
    originalRowData,  \* useState originalRowData: one record per uploaded row
    materialData,     \* useState materialData: the working collection
    error,            \* useState error (a message or NoError)
    showColumnMapper, \* useState showColumnMapper
    selectedRows,     \* ResultsTable useState selectedRows
    isGrouped,        \* ResultsTable useState isGrouped
    pending,          \* requests to /api/lca-data whose response has not arrived
    alerts,           \* number of window.alert messages shown so far
    uploads,          \* number of files uploaded so far
    call,             \* harness: the arguments of the pure function under check
    ret               \* harness: its result

vars == <<csvData, hasHeaders, originalRowData, materialData, error,
          showColumnMapper, selectedRows, isGrouped, pending, alerts, uploads,
          call, ret>>

engineVars == <<csvData, hasHeaders, originalRowData, materialData, error,
                showColumnMapper, selectedRows, isGrouped, pending, alerts,
                uploads>>

-----------------------------------------------------------------------------
(* Numbers *)

Scale == 10

Null == -1

NaN == -2

Undefined == -3

Num(n) == n * Scale

\* (v ?? 0)
OrZero(v) == IF v = Null THEN 0 ELSE v

\* a * b: NaN when an operand is NaN or undefined, null counts as 0
Mul(a, b) ==
    IF a \in {NaN, Undefined} \/ b \in {NaN, Undefined} THEN NaN
    ELSE (OrZero(a) * OrZero(b)) \div Scale

\* a + b: NaN when an operand is NaN or undefined, null counts as 0
Add(a, b) ==
    IF a \in {NaN, Undefined} \/ b \in {NaN, Undefined} THEN NaN
    ELSE OrZero(a) + OrZero(b)

Max(a, b) == IF a >= b THEN a ELSE b

-----------------------------------------------------------------------------
(* Strings *)

UpperAlphabet == "ABCDEFGHIJKLMNOPQRSTUVWXYZ"

LowerAlphabet == "abcdefghijklmnopqrstuvwxyz"

Digits == "0123456789"

\* index of the one-character string c in alphabet, 0 when absent
IndexIn(alphabet, c) ==
    IF \E i \in 1..Len(alphabet) : SubSeq(alphabet, i, i) = c
    THEN CHOOSE i \in 1..Len(alphabet) : SubSeq(alphabet, i, i) = c
    ELSE 0

\* the lower-case letter of each upper-case letter
LowerOf ==
    [ c \in { SubSeq(UpperAlphabet, i, i) : i \in 1..Len(UpperAlphabet) } |->
        LET i == IndexIn(UpperAlphabet, c) IN SubSeq(LowerAlphabet, i, i) ]

LowerChar(c) == IF c \in DOMAIN LowerOf THEN LowerOf[c] ELSE c

RECURSIVE ToLowerCase(_)
ToLowerCase(s) ==
    IF s = "" THEN "" ELSE LowerChar(Head(s)) \o ToLowerCase(Tail(s))

IsSpace(c) == c = " "

RECURSIVE TrimStart(_)
TrimStart(s) ==
    IF s # "" /\ IsSpace(Head(s)) THEN TrimStart(Tail(s)) ELSE s

RECURSIVE TrimEnd(_)
TrimEnd(s) ==
    IF s # "" /\ IsSpace(SubSeq(s, Len(s), Len(s)))
    THEN TrimEnd(SubSeq(s, 1, Len(s) - 1))
    ELSE s

Trim(s) == TrimEnd(TrimStart(s))

\* String.prototype.includes
Includes(s, t) ==
    \E i \in 0..(Len(s) - Len(t)) : SubSeq(s, i + 1, i + Len(t)) = t

\* s.split(/\s+/): the pieces between maximal runs of white space
RECURSIVE SplitFrom(_, _, _, _)
SplitFrom(s, cur, inRun, acc) ==
    IF s = "" THEN Append(acc, cur)
    ELSE IF IsSpace(Head(s))
         THEN IF inRun THEN SplitFrom(Tail(s), cur, TRUE, acc)
                        ELSE SplitFrom(Tail(s), "", TRUE, Append(acc, cur))
         ELSE SplitFrom(Tail(s), cur \o Head(s), FALSE, acc)

SplitWords(s) == SplitFrom(s, "", FALSE, <<>>)

RECURSIVE DigitRun(_)
\* the longest prefix of s made of decimal digits
DigitRun(s) ==
    IF s # "" /\ IndexIn(Digits, Head(s)) # 0
    THEN Head(s) \o DigitRun(Tail(s))
    ELSE ""

RECURSIVE IntValue(_, _)
IntValue(ds, acc) ==
    IF ds = "" THEN acc
    ELSE IntValue(Tail(ds), acc * 10 + (IndexIn(Digits, Head(ds)) - 1))

RECURSIVE FracValue(_, _)
\* the value of the fractional digits ds, in units of 1/Scale, unit being the
\* weight of the next digit
FracValue(ds, unit) ==
    IF ds = "" \/ unit = 0 THEN 0
    ELSE (IndexIn(Digits, Head(ds)) - 1) * unit + FracValue(Tail(ds), unit \div 10)

\* parseFloat on a string of the form [spaces] digits [ "." digits ] rest
ParseFloat(s) ==
    LET t    == TrimStart(s)
        ip   == DigitRun(t)
        rest == SubSeq(t, Len(ip) + 1, Len(t))
        fp   == IF rest # "" /\ Head(rest) = "." THEN DigitRun(Tail(rest)) ELSE ""
    IN  IF ip = "" /\ fp = "" THEN NaN
        ELSE IntValue(ip, 0) * Scale + FracValue(fp, Scale \div 10)

\* (x || 0) for a number x
NumOrZero(x) == IF x \in {NaN, Null, Undefined} THEN 0 ELSE x

-----------------------------------------------------------------------------
(* The catalog (KBOBMaterial) and the matcher of /api/lca-data *)

\* materialMappings, in the order of Object.entries
materialMappings ==
    << [type |-> "betonfertigteil",
        keywords |-> <<"fertigteil", "vorfabriziert", "betonfertigteil">>,
        preferredTypes |-> <<"Betonfertigteil">>],
       [type |-> "beton",
        keywords |-> <<"beton", "concrete", "zement">>,
        preferredTypes |-> <<"Hochbaubeton">>],
       [type |-> "bewehrung",
        keywords |-> <<"bewehrung", "armierung", "stahl">>,
        preferredTypes |-> <<"Armierungsstahl">>],
       [type |-> "mauerwerk",
        keywords |-> <<"mauerwerk", "mauer", "ziegel">>,
        preferredTypes |-> <<"Backstein">>],
       [type |-> "holz",
        keywords |-> <<"holz", "wood", "timber">>,
        preferredTypes |-> <<"Brettschichtholz">>] >>

ExactScore == 100

PreferredScore == 90

KeywordScore == 80

GoodMatchScore == 80

\* score += 0.3 in IEEE double arithmetic: 0.3, 0.6, 0.8999999999999999, 1.2, ...
AddWordScore(score) == IF score = 60 THEN 89 ELSE IF score = 89 THEN 120 ELSE score + 30

\* variant of MappingStep: the scores of a category are added up
MappingStep_Sum(score, mapping, normalizedSearch, nameDE, materialName) ==
    IF Includes(normalizedSearch, mapping.type)
    THEN LET s1 == IF \E i \in 1..Len(mapping.preferredTypes) :
                        Includes(nameDE, mapping.preferredTypes[i])
                   THEN score + PreferredScore ELSE score
         IN  IF \E i \in 1..Len(mapping.keywords) :
                    Includes(materialName, mapping.keywords[i])
             THEN s1 + KeywordScore ELSE s1
    ELSE score

\* one iteration of the loop over Object.entries(materialMappings)
MappingStep(score, mapping, normalizedSearch, nameDE, materialName) ==
    IF Includes(normalizedSearch, mapping.type)
    THEN LET s1 == IF \E i \in 1..Len(mapping.preferredTypes) :
                        Includes(nameDE, mapping.preferredTypes[i])
                   THEN Max(score, PreferredScore) ELSE score
         IN  IF \E i \in 1..Len(mapping.keywords) :
                    Includes(materialName, mapping.keywords[i])
             THEN Max(s1, KeywordScore) ELSE s1
    ELSE score

RECURSIVE MappingScore(_, _, _, _, _)
MappingScore(i, score, normalizedSearch, nameDE, materialName) ==
    IF i > Len(materialMappings) THEN score
    ELSE MappingScore(i + 1,
                      MappingStep(score, materialMappings[i], normalizedSearch,
                                  nameDE, materialName),
                      normalizedSearch, nameDE, materialName)

RECURSIVE FuzzyScore(_, _, _)
\* words.forEach(word => { if (materialName.includes(word)) score += 0.3 })
FuzzyScore(words, materialName, score) ==
    IF words = <<>> THEN score
    ELSE FuzzyScore(Tail(words), materialName,
                    IF Includes(materialName, Head(words))
                    THEN AddWordScore(score) ELSE score)

\* the body of materials.forEach: the score of one catalog entry
EntryScore(normalizedSearch, material) ==
    LET materialName == ToLowerCase(material.nameDE)
    IN  IF materialName = normalizedSearch THEN ExactScore
        ELSE LET score == MappingScore(1, 0, normalizedSearch, material.nameDE,
                                       materialName)
             IN  IF score = 0
                 THEN FuzzyScore(SplitWords(normalizedSearch), materialName, 0)
                 ELSE score

\* variant of BetterMatch: an entry that ties with the best so far replaces it
BetterMatch_OrEqual(score, bestScore) == score >= bestScore

\* if (score > bestScore) { bestScore = score; bestMatch = material }
BetterMatch(score, bestScore) == score > bestScore

RECURSIVE BestFrom(_, _, _, _, _)
\* best is the index of bestMatch in materials, 0 for null
BestFrom(i, materials, normalizedSearch, best, bestScore) ==
    IF i > Len(materials) THEN [material |-> best, score |-> bestScore]
    ELSE LET score == EntryScore(normalizedSearch, materials[i])
         IN  IF BetterMatch(score, bestScore)
             THEN BestFrom(i + 1, materials, normalizedSearch, i, score)
             ELSE BestFrom(i + 1, materials, normalizedSearch, best, bestScore)

\* findBestMaterialMatch(searchTerm, materials): the index of the best entry
\* (0: none) and its score
findBestMaterialMatch(searchTerm, materials) ==
    BestFrom(1, materials, Trim(ToLowerCase(searchTerm)), 0, 0)

-----------------------------------------------------------------------------
(* POST /api/lca-data *)

\* matchedMaterial: null
NoMaterial == "<null>"

\* String(index + 1) in the placeholder labels
Placeholder(prefix, index) == prefix \o ToString(index)

\* cleanedData[index - 1] for a request item that is an object
CleanItem(item, index) ==
    [ element  |-> IF item.element = "" THEN Placeholder("Unknown Element ", index)
                   ELSE item.element,
      material |-> IF item.material = "" THEN Placeholder("Unknown Material ", index)
                   ELSE item.material,
      quantity |-> NumOrZero(item.quantity),
      unit     |-> IF item.unit = "" THEN "kg" ELSE item.unit ]

\* parseFloat(m.density || "0")
DensityOf(m) == ParseFloat(IF m.density = "" THEN "0" ELSE m.density)

\* the predicate of lcaMaterials.filter for one catalog entry
IsRelevant(searchTerm, m) ==
    LET name        == ToLowerCase(m.nameDE)
        searchTermL == ToLowerCase(searchTerm)
    IN  IF Includes(searchTermL, "betonfertigteil")
        THEN Includes(name, "fertigteil") \/ Includes(name, "vorfabriziert")
        ELSE IF Includes(searchTermL, "beton")
        THEN Includes(name, "beton") \/ Includes(name, "concrete")
        ELSE IF Includes(searchTermL, "bewehrung")
        THEN Includes(name, "bewehrung") \/ Includes(name, "armierung")
        ELSE IF Includes(searchTermL, "mauerwerk")
        THEN Includes(name, "mauerwerk") \/ Includes(name, "mauer")
        ELSE IF Includes(searchTermL, "holz")
        THEN Includes(name, "holz") \/ Includes(name, "wood")
        ELSE TRUE

\* one element of availableMaterials
MaterialOption(m) ==
    [ id      |-> m.uuid,
      name    |-> m.nameDE,
      density |-> DensityOf(m),
      co2     |-> OrZero(m.gwpTotal),
      ubp     |-> OrZero(m.ubp21Total),
      kwh     |-> OrZero(m.primaryEnergyNonRenewableTotal) ]

RECURSIVE RelevantFrom(_, _, _)
RelevantFrom(i, searchTerm, lcaMaterials) ==
    IF i > Len(lcaMaterials) THEN <<>>
    ELSE (IF IsRelevant(searchTerm, lcaMaterials[i])
          THEN <<MaterialOption(lcaMaterials[i])>> ELSE <<>>)
         \o RelevantFrom(i + 1, searchTerm, lcaMaterials)

\* relevantMaterials.map(...): the candidate list of a label
AvailableMaterials(searchTerm, lcaMaterials) == RelevantFrom(1, searchTerm, lcaMaterials)

\* variant of IsGoodMatch: any positive score counts as a good match
IsGoodMatch_AnyScore(matchScore) == matchScore > 0

\* const isGoodMatch = matchScore >= 0.8
IsGoodMatch(matchScore) == matchScore >= GoodMatchScore

\* const kg = item.unit === "m3" && matchedMaterial ? quantity * density : quantity
ItemKg(item, matched, lcaMaterials) ==
    IF item.unit = "m3" /\ matched # 0
    THEN Mul(item.quantity, DensityOf(lcaMaterials[matched]))
    ELSE item.quantity

\* one element of processedItems
ProcessItem(item, lcaMaterials) ==
    LET searchTerm == ToLowerCase(item.material)
        found      == findBestMaterialMatch(searchTerm, lcaMaterials)
        matched    == found.material
        good       == IsGoodMatch(found.score) /\ matched # 0
        kg         == ItemKg(item, matched, lcaMaterials)
    IN  [ element  |-> item.element,
          material |-> item.material,
          quantity |-> item.quantity,
          unit     |-> item.unit,
          kg       |-> kg,
          density  |-> IF matched # 0 THEN DensityOf(lcaMaterials[matched]) ELSE 0,
          co2      |-> IF good THEN Mul(OrZero(lcaMaterials[matched].gwpTotal), kg) ELSE 0,
          ubp      |-> IF good THEN Mul(OrZero(lcaMaterials[matched].ubp21Total), kg) ELSE 0,
          kwh      |-> IF good
                       THEN Mul(OrZero(lcaMaterials[matched].primaryEnergyNonRenewableTotal), kg)
                       ELSE 0,
          matchedMaterial |-> IF good THEN lcaMaterials[matched].nameDE ELSE NoMaterial,
          matchScore |-> found.score,
          searchTerm |-> searchTerm,
          availableMaterials |-> AvailableMaterials(searchTerm, lcaMaterials) ]

\* POST: the response for the request body data, an array of objects;
\* fetched is the outcome of the route's fetchLCAData (ok: the catalog arrived);
\* ok is response.ok, items the response body
\* a request item that is no object: null
NullItem == [isNull |-> TRUE]

\* !(!item || typeof item !== "object")
IsObject(item) == "element" \in DOMAIN item

\* variant of POST: the rows without a matched entry are left out
POST_MatchedOnly(data, fetched) ==
    IF (\E i \in 1..Len(data) : ~IsObject(data[i])) \/ ~fetched.ok
    THEN [ok |-> FALSE, items |-> <<>>]
    ELSE [ok |-> TRUE,
          items |-> SelectSeq([i \in 1..Len(data) |->
                                  ProcessItem(CleanItem(data[i], i), fetched.materials)],
                              LAMBDA r : r.matchedMaterial # NoMaterial)]

\* POST: status 500 when an item is no object (cleanedData throws) or the
\* catalog cannot be fetched, the processed items otherwise
POST(data, fetched) ==
    IF (\E i \in 1..Len(data) : ~IsObject(data[i])) \/ ~fetched.ok
    THEN [ok |-> FALSE, items |-> <<>>]
    ELSE [ok |-> TRUE,
          items |-> [i \in 1..Len(data) |->
                        ProcessItem(CleanItem(data[i], i), fetched.materials)]]

-----------------------------------------------------------------------------
(* The working rows (MaterialData) of ConstructionLCACalculator *)

\* error: null
NoError == "<null>"

\* a string field a row object lacks, as a template literal prints it
Undef == "undefined"

\* the record an uploaded row is stored as in originalRowData; a working row
\* that was not created from an uploaded row has origin NoOrigin
NoOrigin == [Pos |-> "", Bauteil |-> "", Material |-> "", Menge |-> ""]

\* one element of mappedData in handleColumnMap, for the uploaded row csvRow
\* (the columns Bauteil, Material and Menge are mapped to element, material
\* and quantity); origin records which uploaded row it was created from
MappedRow(csvRow) ==
    LET quantityValue == NumOrZero(ParseFloat(csvRow.Menge))
    IN  [ element  |-> csvRow.Bauteil,
          material |-> csvRow.Material,
          quantity |-> quantityValue,
          unit     |-> "m3",
          kg       |-> quantityValue,
          co2 |-> 0, ubp |-> 0, kwh |-> 0,
          matchedMaterial |-> "",
          matchScore |-> Null,
          availableMaterials |-> <<>>,
          density  |-> 0,
          isReinforcementFor |-> Null,
          origin   |-> csvRow ]

\* JSON.stringify of the four fields of a row that POST reads from the
\* request body: an undefined field is left out, NaN is written as null
RequestItem(row) ==
    [element  |-> IF row.element = Undef THEN "" ELSE row.element,
     material |-> IF row.material = Undef THEN "" ELSE row.material,
     quantity |-> IF row.quantity \in {NaN, Undefined} THEN Null ELSE row.quantity,
     unit     |-> row.unit]

\* a row of the response body as a working row
ResponseRow(item, origin) ==
    [ element  |-> item.element,
      material |-> item.material,
      quantity |-> item.quantity,
      unit     |-> item.unit,
      kg       |-> item.kg,
      co2 |-> item.co2, ubp |-> item.ubp, kwh |-> item.kwh,
      matchedMaterial |-> item.matchedMaterial,
      matchScore |-> item.matchScore,
      availableMaterials |-> item.availableMaterials,
      density  |-> item.density,
      isReinforcementFor |-> Null,
      origin   |-> origin ]

\* variant of FallbackRow: the mapped row is returned as it is
FallbackRow_AsMapped(item) == item

\* the row fetchLCAData returns for item in its catch branch
FallbackRow(item) ==
    [item EXCEPT !.co2 = 0, !.ubp = 0, !.kwh = 0,
                 !.kg = item.quantity,
                 !.matchedMaterial = "Error fetching data",
                 !.matchScore = Null,
                 !.availableMaterials = <<>>]

\* fetchLCAData(data) of the page: the rows for a response, or the fallback
\* rows and the error message when the call failed
FetchLCAData(data, response) ==
    IF response.ok
    THEN [rows |-> [i \in 1..Len(data) |->
                       ResponseRow(response.items[i], data[i].origin)],
          error |-> NoError]
    ELSE [rows |-> [i \in 1..Len(data) |-> FallbackRow(data[i])],
          error |-> "Failed to fetch LCA data"]

\* row.element === other.element && ... && row.unit === other.unit, the
\* comparison of every findIndex (NaN is not equal to itself)
SameRow(row, other) ==
    /\ row.element = other.element
    /\ row.material = other.material
    /\ row.quantity = other.quantity /\ row.quantity # NaN
    /\ row.unit = other.unit

RECURSIVE FindFrom(_, _, _)
FindFrom(i, data, target) ==
    IF i > Len(data) THEN -1
    ELSE IF SameRow(data[i], target) THEN i - 1
    ELSE FindFrom(i + 1, data, target)

\* data.findIndex(row => SameRow(row, target)): a 0-based index or -1
FindIndex(data, target) == FindFrom(1, data, target)

\* An element of selectedRows or of an indices argument: a number (index), a
\* row object (row) or a boolean (index is Number(boolean))
NoRow == MappedRow(NoOrigin)

NumberEntry(n) == [kind |-> "number", index |-> n, row |-> NoRow]

ObjectEntry(row) == [kind |-> "object", index |-> -1, row |-> row]

BooleanEntry(b) == [kind |-> "boolean", index |-> IF b THEN 1 ELSE 0, row |-> NoRow]

\* the .map of handleUpdateMaterial: a row object becomes the index of the
\* first row with its element, material, quantity and unit
ConvertIndex(data, entry) ==
    IF entry.kind = "object" THEN NumberEntry(FindIndex(data, entry.row)) ELSE entry

\* the .filter of handleUpdateMaterial
IsValidIndex(data, entry) ==
    entry.kind = "number" /\ entry.index >= 0 /\ entry.index < Len(data)

RECURSIVE ValidIndices(_, _)
ValidIndices(data, indices) ==
    IF indices = <<>> THEN <<>>
    ELSE LET index == ConvertIndex(data, Head(indices))
         IN  (IF IsValidIndex(data, index) THEN <<index.index>> ELSE <<>>)
             \o ValidIndices(data, Tail(indices))

\* updatedRow of handleUpdateMaterial
UpdatedRow(row, material) ==
    LET kg == IF row.unit = "m3" THEN Mul(row.quantity, material.density)
              ELSE row.quantity
    IN  [row EXCEPT !.matchedMaterial = material.name,
                    !.density = material.density,
                    !.kg = kg,
                    !.co2 = Mul(kg, material.co2),
                    !.ubp = Mul(kg, material.ubp),
                    !.kwh = Mul(kg, material.kwh)]

RECURSIVE UpdateEach(_, _, _)
\* validIndices.forEach(...) on updatedData
UpdateEach(updatedData, validIndices, material) ==
    IF validIndices = <<>> THEN updatedData
    ELSE LET index == Head(validIndices) + 1
         IN  UpdateEach([updatedData EXCEPT ![index] = UpdatedRow(updatedData[index], material)],
                        Tail(validIndices), material)

\* handleUpdateMaterial(indices, material): the next materialData
handleUpdateMaterial(data, indices, material) ==
    UpdateEach(data, ValidIndices(data, indices), material)

\* newData.splice(index, 1) when index >= 0 && index < newData.length
Splice(newData, index) ==
    IF index >= 0 /\ index < Len(newData)
    THEN SubSeq(newData, 1, index) \o SubSeq(newData, index + 2, Len(newData))
    ELSE newData

RECURSIVE SpliceEach(_, _)
\* indices.forEach(...) of handleDeleteRows; a row object passes no comparison
SpliceEach(newData, indices) ==
    IF indices = <<>> THEN newData
    ELSE SpliceEach(IF Head(indices).kind = "object" THEN newData
                    ELSE Splice(newData, Head(indices).index),
                    Tail(indices))

\* indices.sort((a, b) => b - a) may return sorted: it is a permutation of
\* indices, descending when every element is a number or a boolean; b - a is
\* NaN for a row object, and the order is then implementation-defined
IsSorted(indices, sorted) ==
    /\ Len(sorted) = Len(indices)
    /\ \E perm \in [1..Len(indices) -> 1..Len(indices)] :
          /\ \A i, j \in 1..Len(indices) : i # j => perm[i] # perm[j]
          /\ \A i \in 1..Len(indices) : sorted[i] = indices[perm[i]]
    /\ (\A i \in 1..Len(indices) : indices[i].kind # "object")
          => \A i \in 1..Len(sorted) - 1 : sorted[i].index >= sorted[i + 1].index

\* an updates argument of handleRowUpdate: the fields it has, and their values
Updates(fields, row) == [fields |-> fields, row |-> row]

AllFields ==
    { "element", "material", "quantity", "unit", "kg", "co2", "ubp", "kwh",
      "matchedMaterial", "matchScore", "availableMaterials", "density",
      "isReinforcementFor" }

\* the row object that has no field at all
BlankRow ==
    [ element |-> Undef, material |-> Undef, quantity |-> Undefined,
      unit |-> Undef, kg |-> Undefined,
      co2 |-> Undefined, ubp |-> Undefined, kwh |-> Undefined,
      matchedMaterial |-> Undef, matchScore |-> Undefined,
      availableMaterials |-> <<>>, density |-> Undefined,
      isReinforcementFor |-> Null, origin |-> NoOrigin ]

\* { ...row, ...updates }
Spread(row, updates) ==
    LET With(field, old, new) == IF field \in updates.fields THEN new ELSE old
        u == updates.row
    IN  [ element  |-> With("element", row.element, u.element),
          material |-> With("material", row.material, u.material),
          quantity |-> With("quantity", row.quantity, u.quantity),
          unit     |-> With("unit", row.unit, u.unit),
          kg       |-> With("kg", row.kg, u.kg),
          co2      |-> With("co2", row.co2, u.co2),
          ubp      |-> With("ubp", row.ubp, u.ubp),
          kwh      |-> With("kwh", row.kwh, u.kwh),
          matchedMaterial |-> With("matchedMaterial", row.matchedMaterial, u.matchedMaterial),
          matchScore |-> With("matchScore", row.matchScore, u.matchScore),
          availableMaterials |->
              With("availableMaterials", row.availableMaterials, u.availableMaterials),
          density  |-> With("density", row.density, u.density),
          isReinforcementFor |->
              With("isReinforcementFor", row.isReinforcementFor, u.isReinforcementFor),
          origin   |-> row.origin ]

\* handleRowUpdate(index, updates): the next materialData
handleRowUpdate(prevData, index, updates) ==
    IF index >= Len(prevData)
    THEN Append(prevData, Spread(BlankRow, updates))
    ELSE [prevData EXCEPT ![index + 1] = Spread(prevData[index + 1], updates)]

-----------------------------------------------------------------------------
(* ResultsTable: the group view *)

\* const key = `${row.element}-${row.material}`
GroupKey(row) == row.element \o "-" \o row.material

\* acc[key] = {...}: the group a first row opens
NewGroup(row) ==
    [ key      |-> GroupKey(row),
      element  |-> row.element,
      material |-> row.material,
      unit     |-> row.unit,
      quantity |-> 0, kg |-> 0, co2 |-> 0, ubp |-> 0, kwh |-> 0,
      density  |-> NumOrZero(row.density),
      matchedMaterial |-> IF row.matchedMaterial \in {NoMaterial, Undef} THEN ""
                          ELSE row.matchedMaterial,
      matchScore |-> IF NumOrZero(row.matchScore) = 0 THEN Null ELSE row.matchScore,
      availableMaterials |-> row.availableMaterials,
      rows     |-> <<>> ]

\* acc[key].quantity += row.quantity; ...; acc[key].rows.push(row)
AddToGroup(group, row) ==
    [group EXCEPT !.quantity = Add(group.quantity, row.quantity),
                  !.kg  = Add(group.kg, NumOrZero(row.kg)),
                  !.co2 = Add(group.co2, NumOrZero(row.co2)),
                  !.ubp = Add(group.ubp, NumOrZero(row.ubp)),
                  !.kwh = Add(group.kwh, NumOrZero(row.kwh)),
                  !.rows = Append(group.rows, row)]

\* the position of acc[key] in Object.values(acc), 0 when acc has no such key
KeyIndex(acc, key) ==
    IF \E g \in 1..Len(acc) : acc[g].key = key
    THEN CHOOSE g \in 1..Len(acc) : acc[g].key = key
    ELSE 0

\* one step of data.reduce in groupData
GroupStep(acc, row) ==
    LET key == GroupKey(row)
        g   == KeyIndex(acc, key)
    IN  IF g = 0 THEN Append(acc, AddToGroup(NewGroup(row), row))
        ELSE [acc EXCEPT ![g] = AddToGroup(acc[g], row)]

RECURSIVE GroupFrom(_, _, _)
GroupFrom(i, data, acc) ==
    IF i > Len(data) THEN acc
    ELSE GroupFrom(i + 1, data, GroupStep(acc, data[i]))

\* groupData(data) when isGrouped: the groups in the order of Object.values
groupData(data) == GroupFrom(1, data, <<>>)

-----------------------------------------------------------------------------
(* Initial state of the page and of the harness *)

EngineInit ==
    /\ csvData = <<>>
    /\ hasHeaders = FALSE
    /\ originalRowData = <<>>
    /\ materialData = <<>>
    /\ error = NoError
    /\ showColumnMapper = FALSE
    /\ selectedRows = <<>>
    /\ isGrouped = TRUE
    /\ pending = <<>>
    /\ alerts = 0
    /\ uploads = 0

NoCall == [fn |-> "none"]

NoRet == [done |-> FALSE]

\* catalog entries by name; the matcher reads nameDE only
Entry(name) ==
    [ uuid |-> name, nameDE |-> name, density |-> "2",
      gwpTotal |-> Num(1), ubp21Total |-> Num(1),
      primaryEnergyNonRenewableTotal |-> Num(1) ]

\* the sequences of length at most n over S that repeat no element
DistinctSeqs(S, n) ==
    { q \in UNION { [1..k -> S] : k \in 0..n } :
        \A i, j \in 1..Len(q) : i # j => q[i] # q[j] }

-----------------------------------------------------------------------------
(* Specification SpecMatch: findBestMaterialMatch on bounded inputs *)

MaxCatalog == 2

MatchNames ==
    { "Beton", "Hochbaubeton", "Betonfertigteil", "Armierungsstahl",
      "Glas", "PE Folie 2 mm", "PE Folie 2 mm blau" }

MatchLabels ==
    { "Beton", " BETON ", "hochbaubeton", "Betonfertigteil Wand", "Glas",
      "pe folie 2 mm", "Armierungsstahl", "Holz", "xyz" }

MatchCatalogs ==
    { [i \in 1..Len(q) |-> Entry(q[i])] : q \in DistinctSeqs(MatchNames, MaxCatalog) }

InitMatch ==
    /\ EngineInit
    /\ call \in [fn : {"match"}, searchTerm : MatchLabels, materials : MatchCatalogs]
    /\ ret = NoRet

ApplyMatch ==
    /\ call.fn = "match"
    /\ ~ret.done
    /\ ret' = [done |-> TRUE] @@ findBestMaterialMatch(call.searchTerm, call.materials)
    /\ UNCHANGED <<call, engineVars>>

NextMatch == ApplyMatch

SpecMatch == InitMatch /\ [][NextMatch]_vars

\* C1 (as stated): a label equal, after lowercasing and trimming, to the name
\* of a catalog entry makes findBestMaterialMatch return that entry with score
\* exactly 1.0, whatever the other names of the catalog are.
C1_ExactMatchReturned ==
    (call.fn = "match" /\ ret.done) =>
        \A i \in 1..Len(call.materials) :
            ToLowerCase(call.materials[i].nameDE) = Trim(ToLowerCase(call.searchTerm))
                => (ret.material = i /\ ret.score = ExactScore)

\* C21: the score findBestMaterialMatch returns lies between 0 and 1
\* (0 and 100 hundredths), for every label and every catalog.
C21_ScoreRange ==
    (call.fn = "match" /\ ret.done) => (0 <= ret.score /\ ret.score <= ExactScore)

\* what category mapping gives material under the label normalizedSearch: 0.9
\* with a preferred substring in its name, 0.8 with a keyword in its
\* lowercased name, 0 otherwise or when the label lacks the category token
CategoryScore(mapping, normalizedSearch, material) ==
    IF ~Includes(normalizedSearch, mapping.type) THEN 0
    ELSE IF \E i \in 1..Len(mapping.preferredTypes) :
               Includes(material.nameDE, mapping.preferredTypes[i])
    THEN PreferredScore
    ELSE IF \E i \in 1..Len(mapping.keywords) :
               Includes(ToLowerCase(material.nameDE), mapping.keywords[i])
    THEN KeywordScore
    ELSE 0

\* the largest of them over the categories
CategoryMax(normalizedSearch, material) ==
    LET scores == { CategoryScore(materialMappings[m], normalizedSearch, material) :
                      m \in 1..Len(materialMappings) }
    IN  CHOOSE v \in scores : \A w \in scores : w <= v

\* C22: under a label that contains a category token, an entry whose name
\* contains a preferred substring of that category scores at least 0.9 and an
\* entry whose name contains a keyword of it at least 0.8; an entry to which
\* several categories or keywords apply scores the largest of these values,
\* not their sum (or 1.0 when its name equals the label).
C22_CategoryScoring ==
    (call.fn = "match" /\ ret.done) =>
        \A i \in 1..Len(call.materials) :
            LET normalizedSearch == Trim(ToLowerCase(call.searchTerm))
                material == call.materials[i]
                score    == EntryScore(normalizedSearch, material)
                largest  == CategoryMax(normalizedSearch, material)
            IN  largest > 0 =>
                    /\ score >= largest
                    /\ \/ score = largest
                       \/ /\ score = ExactScore
                          /\ ToLowerCase(material.nameDE) = normalizedSearch

\* the label names two categories; the first entry holds a preferred substring
\* and keywords of both, the second a keyword only
C22_Witness ==
    /\ call.fn = "match" /\ ret.done
    /\ call.searchTerm = "Betonfertigteil Wand"
    /\ Len(call.materials) = 2
    /\ call.materials[1].nameDE = "Betonfertigteil"
    /\ call.materials[2].nameDE = "Beton"
    /\ ret.material = 1 /\ ret.score = PreferredScore
    /\ EntryScore("betonfertigteil wand", call.materials[2]) = KeywordScore

\* the score of an entry from the exact-match and category steps alone
StepScore(normalizedSearch, material) ==
    IF ToLowerCase(material.nameDE) = normalizedSearch THEN ExactScore
    ELSE CategoryMax(normalizedSearch, material)

\* C25: when some entry of the catalog scores above 0 in the exact-match or
\* category steps, the score of every entry is the one these steps give it:
\* the 0.3-per-word fallback contributes to no entry's score.
C25_FallbackLastResort ==
    (call.fn = "match" /\ ret.done) =>
        LET normalizedSearch == Trim(ToLowerCase(call.searchTerm))
        IN  (\E i \in 1..Len(call.materials) :
                StepScore(normalizedSearch, call.materials[i]) > 0)
            => \A j \in 1..Len(call.materials) :
                  EntryScore(normalizedSearch, call.materials[j])
                    = StepScore(normalizedSearch, call.materials[j])

-----------------------------------------------------------------------------
(* Specification SpecPost: the POST handler on bounded requests *)

MaxItems == 2

Hochbaubeton ==
    [ uuid |-> "m1", nameDE |-> "Hochbaubeton", density |-> "2400",
      gwpTotal |-> 1, ubp21Total |-> Num(3),
      primaryEnergyNonRenewableTotal |-> Null ]

Armierungsstahl ==
    [ uuid |-> "m2", nameDE |-> "Armierungsstahl", density |-> "",
      gwpTotal |-> Num(2), ubp21Total |-> Num(1),
      primaryEnergyNonRenewableTotal |-> Num(3) ]

Glaswolle ==
    [ uuid |-> "m3", nameDE |-> "Glaswolle", density |-> "0",
      gwpTotal |-> Num(1), ubp21Total |-> Null,
      primaryEnergyNonRenewableTotal |-> Num(1) ]

PostCatalogs ==
    { <<>>, <<Hochbaubeton>>, <<Glaswolle, Hochbaubeton>>,
      <<Hochbaubeton, Armierungsstahl, Glaswolle>> }

\* requests as the three callers build them: handleColumnMap (every unit is
\* m3; a cell may be empty or not a number), handleUnitChange (one item, kg or
\* m3) and handleAddReinforcement (one item, kg)
PostItem(element, material, quantity, unit) ==
    [element |-> element, material |-> material, quantity |-> quantity, unit |-> unit]

PostItems ==
    { PostItem("Wand", "Beton C25", 25, "m3"),
      PostItem("Wand", "Beton C25", Num(2), "kg"),
      PostItem("Wand", "Glas", Num(2), "m3"),
      PostItem("Wand", "Glas", Num(2), "kg"),
      PostItem("Wand", "Armierungsstahl", Num(2), "m3"),
      PostItem("Bewehrung", "Armierungsstahl", 25, "kg"),
      PostItem("Decke", "xyz", Num(2), "m3"),
      PostItem("Wand", "Betonfertigteil", Num(2), "m3"),
      PostItem("Decke", "Glaswolle", 0, "m3"),
      PostItem("", "", Null, ""),
      NullItem }

PostRequests == UNION { [1..k -> PostItems] : k \in 1..MaxItems }

InitPost ==
    /\ EngineInit
    /\ call \in [fn : {"post"}, data : PostRequests,
                 fetched : [ok : {TRUE}, materials : PostCatalogs]
                           \cup {[ok |-> FALSE, materials |-> <<>>]}]
    /\ ret = NoRet

ApplyPost ==
    /\ call.fn = "post"
    /\ ~ret.done
    /\ ret' = [done |-> TRUE] @@ POST(call.data, call.fetched)
    /\ UNCHANGED <<call, engineVars>>

NextPost == ApplyPost

SpecPost == InitPost /\ [][NextPost]_vars

\* C2: in every row of a POST response (the Matcher+Calculator pass of ingest
\* and of re-match), a score below 0.8 (which includes no entry matched, score
\* 0) gives co2 = ubp = kwh = 0 and matchedMaterial null whatever quantity and
\* kg are, while availableMaterials still holds every catalog entry that
\* passes the category filter of the label; and an impact is non-zero only
\* when the score is at least 0.8.
C2_LowScoreZeroImpacts ==
    (call.fn = "post" /\ ret.done /\ ret.ok) =>
        \A i \in 1..Len(ret.items) :
            LET r == ret.items[i]
                catalog == call.fetched.materials
            IN  /\ r.matchScore < 80 =>
                      /\ r.co2 = 0 /\ r.ubp = 0 /\ r.kwh = 0
                      /\ r.matchedMaterial = NoMaterial
                      /\ { r.availableMaterials[k].id :
                             k \in 1..Len(r.availableMaterials) }
                           = { catalog[k].uuid : k \in
                                 { j \in 1..Len(catalog) :
                                     IsRelevant(r.material, catalog[j]) } }
                /\ (r.co2 # 0 \/ r.ubp # 0 \/ r.kwh # 0) => r.matchScore >= 80

\* C2 witness: a response row with a positive score below 0.8, a non-zero
\* mass, zero impacts, no matched material and a non-empty candidate list,
\* next to a row whose impacts are non-zero.
C2_Witness ==
    /\ call.fn = "post" /\ ret.done /\ ret.ok
    /\ \E i \in 1..Len(ret.items) :
          /\ ret.items[i].matchScore > 0 /\ ret.items[i].matchScore < 80
          /\ ret.items[i].kg > 0 /\ ret.items[i].co2 = 0
          /\ ret.items[i].matchedMaterial = NoMaterial
          /\ Len(ret.items[i].availableMaterials) > 0
    /\ \E i \in 1..Len(ret.items) :
          ret.items[i].matchScore >= 80 /\ ret.items[i].co2 > 0

\* C3 (as stated): a response row with unit m3 has kg = quantity x density of
\* the matched entry, and kg = 0 when that density is 0 or absent or when no
\* entry matched at all (score 0).
C3_VolumeToMass ==
    (call.fn = "post" /\ ret.done /\ ret.ok) =>
        \A i \in 1..Len(ret.items) :
            LET r == ret.items[i]
            IN  r.unit = "m3" =>
                    r.kg = IF r.matchScore = 0 THEN 0 ELSE Mul(r.quantity, r.density)

\* the element, material, quantity and unit of the request item at index
\* (from 1) after defaulting
Defaulted(item, index) ==
    IF ~IsObject(item)
    THEN [element  |-> "Unknown Element " \o ToString(index),
          material |-> "Unknown Material " \o ToString(index),
          quantity |-> 0, unit |-> "kg"]
    ELSE [element  |-> IF item.element = ""
                       THEN "Unknown Element " \o ToString(index) ELSE item.element,
          material |-> IF item.material = ""
                       THEN "Unknown Material " \o ToString(index) ELSE item.material,
          quantity |-> IF item.quantity \in {Null, NaN, Undefined} THEN 0
                       ELSE item.quantity,
          unit     |-> IF item.unit = "" THEN "kg" ELSE item.unit]

\* row carries the element, material, quantity and unit of item
Carries(row, item) ==
    /\ row.element = item.element
    /\ row.material = item.material
    /\ row.quantity = item.quantity
    /\ row.unit = item.unit

\* C15: for a request of n items (records) and a catalog that was fetched,
\* the response is n rows, and row i carries the element, material, quantity
\* and unit of item i after defaulting.
C15_IngestShape ==
    (call.fn = "post" /\ ret.done /\ call.fetched.ok
       /\ \A i \in 1..Len(call.data) : IsObject(call.data[i]))
    => /\ ret.ok
       /\ Len(ret.items) = Len(call.data)
       /\ \A i \in 1..Len(call.data) :
             Carries(ret.items[i], Defaulted(call.data[i], i))

\* a response of two rows to two different items, one of them matched with
\* confidence and one with no match at all
C15_Witness ==
    /\ call.fn = "post" /\ ret.done /\ ret.ok
    /\ Len(ret.items) = 2
    /\ ret.items[1].element # ret.items[2].element
    /\ ret.items[1].matchedMaterial # NoMaterial
    /\ ret.items[2].matchedMaterial = NoMaterial

\* C16 (as stated): for a catalog that was fetched, every request gets its
\* rows, one for each item, and an item that is no well-formed record (no
\* element, no material, no quantity, or no object at all) gets the
\* placeholders and quantity 0 of the defaulting; no item makes the whole
\* request fail.
C16_MalformedDefaulted ==
    (call.fn = "post" /\ ret.done /\ call.fetched.ok)
    => /\ ret.ok
       /\ Len(ret.items) = Len(call.data)
       /\ \A i \in 1..Len(call.data) :
             Carries(ret.items[i], Defaulted(call.data[i], i))

\* the normalized label names no category
NoCategoryToken(normalizedSearch) ==
    \A m \in 1..Len(materialMappings) :
        ~Includes(normalizedSearch, materialMappings[m].type)

\* no word of the normalized label is contained in the lowercased name of an
\* entry of the catalog
NoWordInCatalog(normalizedSearch, materials) ==
    LET words == SplitWords(normalizedSearch)
    IN  \A w \in 1..Len(words), i \in 1..Len(materials) :
            ~Includes(ToLowerCase(materials[i].nameDE), words[w])

\* C24: for a label without category token none of whose words is contained
\* in a name of the catalog, findBestMaterialMatch returns no entry and score
\* 0, and the row of the response has matchScore 0, matchedMaterial null and
\* co2 = ubp = kwh = 0 whatever its quantity; the request itself succeeds.
C24_NoMatchOutcome ==
    (/\ call.fn = "post" /\ ret.done /\ call.fetched.ok
     /\ \A i \in 1..Len(call.data) : IsObject(call.data[i]))
    => /\ ret.ok
       /\ Len(ret.items) = Len(call.data)
       /\ \A i \in 1..Len(call.data) :
             LET row == ret.items[i]
                 normalizedSearch == Trim(ToLowerCase(row.material))
             IN  (/\ NoCategoryToken(normalizedSearch)
                  /\ NoWordInCatalog(normalizedSearch, call.fetched.materials))
                 => /\ findBestMaterialMatch(row.material, call.fetched.materials)
                         = [material |-> 0, score |-> 0]
                    /\ row.matchScore = 0
                    /\ row.matchedMaterial = NoMaterial
                    /\ row.co2 = 0 /\ row.ubp = 0 /\ row.kwh = 0

\* a row of label xyz and quantity 2 answered from a catalog of three
\* entries, beside a row with a matched entry
C24_Witness ==
    /\ call.fn = "post" /\ ret.done /\ ret.ok
    /\ Len(call.fetched.materials) = 3
    /\ Len(ret.items) = 2
    /\ ret.items[1].material = "xyz" /\ ret.items[1].quantity = Num(2)
    /\ ret.items[1].matchScore = 0
    /\ ret.items[2].matchedMaterial = "Hochbaubeton"


\* C30: in every row of a response whose label gave a best entry with score
\* 0.8 or more, that entry is among the row's availableMaterials; and for a
\* label without category token availableMaterials is the whole catalog, in
\* catalog order.
C30_BestMatchIsCandidate ==
    (call.fn = "post" /\ ret.done /\ ret.ok) =>
        \A i \in 1..Len(ret.items) :
            LET row       == ret.items[i]
                materials == call.fetched.materials
                found     == findBestMaterialMatch(row.material, materials)
            IN  /\ (found.material # 0 /\ found.score >= GoodMatchScore)
                   => \E k \in 1..Len(row.availableMaterials) :
                         row.availableMaterials[k] = MaterialOption(materials[found.material])
                /\ NoCategoryToken(Trim(ToLowerCase(row.material)))
                   => row.availableMaterials =
                         [k \in 1..Len(materials) |-> MaterialOption(materials[k])]

-----------------------------------------------------------------------------
(* Specification Spec: the page, from upload to the results table *)

MaxRows == 2

MaxUploads == 2

MaxData == 3

MaxPending == 1

MaxSelected == 2

\* Papa.parse: a data row of a file, keyed by the headers
CsvRow(pos, element, material, quantity) ==
    [Pos |-> pos, Bauteil |-> element, Material |-> material, Menge |-> quantity]

\* the files, of MaxRows rows: walls and slabs in turn, or slabs only
CsvFiles ==
    { [i \in 1..MaxRows |->
          IF i % 2 = 1 /\ mixed
          THEN CsvRow(ToString(i), "Wand", "Beton C25", "2.5")
          ELSE CsvRow(ToString(i), "Decke", "Glas", "4")] :
      mixed \in BOOLEAN }

EngineCatalog == <<Hochbaubeton, Armierungsstahl>>

\* what the route's fetchLCAData can give for one request: the catalog, or
\* a failure
EngineFetches ==
    { [ok |-> TRUE, materials |-> EngineCatalog],
      [ok |-> FALSE, materials |-> <<>>] }

\* and, for the request of a derivation, also a catalog without steel
SteelFetches ==
    EngineFetches \cup { [ok |-> TRUE, materials |-> <<Hochbaubeton>>] }

\* a request in flight, with what its handler has captured; orphan: the
\* ResultsTable that sent it is no longer rendered
Request(kind, rows, index, unit, sel, rate) ==
    [kind |-> kind, rows |-> rows, index |-> index, unit |-> unit,
     sel |-> sel, rate |-> rate, orphan |-> FALSE]

RemoveAt(q, i) == SubSeq(q, 1, i - 1) \o SubSeq(q, i + 1, Len(q))

\* ResultsTable is rendered
Mounted == hasHeaders /\ ~showColumnMapper /\ Len(materialData) > 0

\* filteredData of ResultsTable, with no search term and no sort
filteredData == materialData

\* groupedData of ResultsTable
groupedData == IF isGrouped THEN groupData(filteredData) ELSE <<>>

\* rendering the ungrouped rows throws: row.quantity.toFixed(2) (or kg, co2,
\* ubp, kwh) on a row object that lacks the field; the page is then gone
Crashed ==
    /\ Mounted /\ ~isGrouped
    /\ \E i \in 1..Len(filteredData) :
          Undefined \in { filteredData[i].quantity, filteredData[i].kg,
                          filteredData[i].co2, filteredData[i].ubp,
                          filteredData[i].kwh }

\* ResultsTable is on the screen
Shown == Mounted /\ ~Crashed

\* the state of ResultsTable after a step: what the step sets while the table
\* stays rendered, the initial useState values once it is not
Table(sel, grouped) ==
    IF Mounted'
    THEN selectedRows' = sel /\ isGrouped' = grouped
    ELSE selectedRows' = <<>> /\ isGrouped' = TRUE

\* the requests in flight after a step that may take ResultsTable away
Orphans ==
    pending' = IF Mounted' THEN pending
               ELSE [i \in 1..Len(pending) |-> [pending[i] EXCEPT !.orphan = TRUE]]

\* handleCSVUpload(data, headers)
Upload(file) ==
    /\ ~Crashed
    /\ ~hasHeaders
    /\ uploads < MaxUploads
    /\ uploads' = uploads + 1
    /\ csvData' = file
    /\ hasHeaders' = TRUE
    /\ originalRowData' = [i \in 1..Len(file) |-> file[i]]
    /\ showColumnMapper' = TRUE
    /\ UNCHANGED <<materialData, error, pending, alerts, call, ret>>
    /\ Table(selectedRows, isGrouped)

\* "Andere Datei hochladen"
ResetFile ==
    /\ ~Crashed
    /\ hasHeaders
    /\ hasHeaders' = FALSE
    /\ csvData' = <<>>
    /\ showColumnMapper' = FALSE
    /\ UNCHANGED <<originalRowData, materialData, error, alerts, uploads, call, ret>>
    /\ Table(selectedRows, isGrouped)
    /\ Orphans

\* "Spalten zuordnen" / "Ergebnisse anzeigen"
ToggleColumnMapper ==
    /\ ~Crashed
    /\ hasHeaders
    /\ showColumnMapper' = ~showColumnMapper
    /\ UNCHANGED <<csvData, hasHeaders, originalRowData, materialData, error,
                   alerts, uploads, call, ret>>
    /\ Table(selectedRows, isGrouped)
    /\ Orphans

\* handleColumnMap up to its await: mappedData is sent to /api/lca-data
ColumnMapStart ==
    /\ ~Crashed
    /\ hasHeaders /\ showColumnMapper
    /\ Len(pending) < MaxPending
    /\ error' = NoError
    /\ pending' = Append(pending,
                         Request("ingest", [i \in 1..Len(csvData) |-> MappedRow(csvData[i])],
                                 0, "", <<>>, 0))
    /\ UNCHANGED <<csvData, hasHeaders, originalRowData, materialData,
                   showColumnMapper, alerts, uploads, call, ret>>
    /\ Table(selectedRows, isGrouped)

\* handleColumnMap from its await on: fetchLCAData returns (setError(message)
\* in its catch is followed by setError(null) here), the rows are stored
ColumnMapResponse(p, fetched) ==
    /\ ~Crashed
    /\ pending[p].kind = "ingest"
    /\ LET data == pending[p].rows
           response == POST([i \in 1..Len(data) |-> RequestItem(data[i])], fetched)
           dataWithLCA == FetchLCAData(data, response)
       IN  materialData' = dataWithLCA.rows
    /\ showColumnMapper' = FALSE
    /\ error' = NoError
    /\ pending' = RemoveAt(pending, p)
    /\ UNCHANGED <<csvData, hasHeaders, originalRowData, alerts, uploads, call, ret>>
    /\ Table(selectedRows, isGrouped)

pageVars == <<csvData, hasHeaders, showColumnMapper, error, uploads>>

\* setIsGrouped(!isGrouped)
ToggleGrouped ==
    /\ Shown
    /\ isGrouped' = ~isGrouped
    /\ UNCHANGED <<pageVars, originalRowData, materialData, selectedRows,
                   pending, alerts, call, ret>>

\* handleSelectAll(e.target.checked) from the checkbox above the table, which
\* is shown checked when selectedRows.length === filteredData.length
SelectAll ==
    /\ Shown
    /\ LET checked == ~(Len(selectedRows) = Len(filteredData))
       IN  selectedRows' = IF checked
                           THEN [i \in 1..Len(filteredData) |-> NumberEntry(i - 1)]
                           ELSE <<>>
    /\ UNCHANGED <<pageVars, originalRowData, materialData, isGrouped,
                   pending, alerts, call, ret>>

\* the checkbox of group g, clicked while some row of the group is not in
\* selectedRows: the row objects of the group are appended
GroupCheckbox(g) ==
    /\ Shown /\ isGrouped
    /\ LET group == groupedData[g]
       IN  /\ \E i \in 1..Len(group.rows) :
                 \A j \in 1..Len(selectedRows) : selectedRows[j] # ObjectEntry(group.rows[i])
           /\ Len(selectedRows) + Len(group.rows) <= MaxSelected
           /\ selectedRows' = selectedRows \o
                  [i \in 1..Len(group.rows) |-> ObjectEntry(group.rows[i])]
    /\ UNCHANGED <<pageVars, originalRowData, materialData, isGrouped,
                   pending, alerts, call, ret>>

\* selectedRows.includes(index) for a number index
IncludesNumber(rows, index) ==
    \E j \in 1..Len(rows) : rows[j] = NumberEntry(index)

RECURSIVE FilterOut(_, _)
\* prev.filter((i) => i !== entry)
FilterOut(prev, entry) ==
    IF prev = <<>> THEN <<>>
    ELSE (IF Head(prev) = entry THEN <<>> ELSE <<Head(prev)>>)
         \o FilterOut(Tail(prev), entry)

\* the checkbox of ungrouped row index: handleRowSelect(e.target.checked, index),
\* whose parameters are (index, isChecked)
RowCheckbox(index) ==
    /\ Shown /\ ~isGrouped
    /\ index < Len(filteredData)
    /\ LET checked == ~IncludesNumber(selectedRows, index)
       IN  IF index # 0
           THEN /\ Len(selectedRows) < MaxSelected
                /\ selectedRows' = Append(selectedRows, BooleanEntry(checked))
           ELSE selectedRows' = FilterOut(selectedRows, BooleanEntry(checked))
    /\ UNCHANGED <<pageVars, originalRowData, materialData, isGrouped,
                   pending, alerts, call, ret>>

\* handleMaterialSelect(rowIndex, material) from the dropdown of an ungrouped row
MaterialSelect(rowIndex, material) ==
    /\ Shown /\ ~isGrouped
    /\ rowIndex < Len(filteredData)
    /\ LET targetRow == filteredData[rowIndex + 1]
           actualIndex == FindIndex(materialData, targetRow)
       IN  /\ targetRow.unit # "m2"
           /\ \E k \in 1..Len(targetRow.availableMaterials) :
                 material = targetRow.availableMaterials[k]
           /\ materialData' =
                  IF actualIndex # -1
                  THEN handleUpdateMaterial(materialData, <<NumberEntry(actualIndex)>>, material)
                  ELSE materialData
    /\ UNCHANGED <<pageVars, originalRowData, selectedRows, isGrouped,
                   pending, alerts, call, ret>>

\* onUpdateMaterial(group.rows, material) from the dropdown of group g
GroupMaterialSelect(g, material) ==
    /\ Shown /\ isGrouped
    /\ LET group == groupedData[g]
       IN  /\ group.unit # "m2"
           /\ \E k \in 1..Len(group.availableMaterials) :
                 material = group.availableMaterials[k]
           /\ materialData' =
                  handleUpdateMaterial(materialData,
                      [i \in 1..Len(group.rows) |-> ObjectEntry(group.rows[i])], material)
    /\ UNCHANGED <<pageVars, originalRowData, selectedRows, isGrouped,
                   pending, alerts, call, ret>>

\* handleBulkUpdate(material) from the dropdown over the selection, which
\* offers filteredData[0].availableMaterials
handleBulkUpdate(material) ==
    /\ Shown
    /\ Len(selectedRows) > 0
    /\ \E k \in 1..Len(filteredData[1].availableMaterials) :
          material = filteredData[1].availableMaterials[k]
    /\ materialData' = handleUpdateMaterial(materialData, selectedRows, material)
    /\ selectedRows' = <<>>
    /\ UNCHANGED <<pageVars, originalRowData, isGrouped, pending, alerts, call, ret>>

\* handleDelete, confirmed: handleDeleteRows(selectedRows) sorts the indices
\* in each of its two updaters
handleDelete ==
    /\ Shown
    /\ Len(selectedRows) > 0
    /\ \E perm \in [1..Len(selectedRows) -> 1..Len(selectedRows)] :
          LET first == [i \in 1..Len(selectedRows) |-> selectedRows[perm[i]]]
          IN  /\ IsSorted(selectedRows, first)
              /\ materialData' = SpliceEach(materialData, first)
              /\ \E perm2 \in [1..Len(selectedRows) -> 1..Len(selectedRows)] :
                    LET second == [i \in 1..Len(selectedRows) |-> first[perm2[i]]]
                    IN  /\ IsSorted(first, second)
                        /\ originalRowData' = SpliceEach(originalRowData, second)
    /\ UNCHANGED <<pageVars, alerts, call, ret>>
    /\ Table(<<>>, isGrouped)
    /\ Orphans

\* the updates of handleUnitChange(index, "m2")
AreaUpdates ==
    Updates({"unit", "matchedMaterial", "matchScore", "availableMaterials", "density"},
            [BlankRow EXCEPT !.unit = "m2", !.matchedMaterial = "",
                             !.matchScore = Null, !.availableMaterials = <<>>,
                             !.density = Undefined])

\* the updates of handleUnitChange(index, unit) for kg or m3, given the
\* response to its request (the catch leaves unit only)
UnitUpdates(unit, response) ==
    IF ~response.ok
    THEN Updates({"unit"}, [BlankRow EXCEPT !.unit = unit])
    ELSE LET item == response.items[1]
             matched == item.matchedMaterial \notin {NoMaterial, ""}
         IN  Updates({"unit", "availableMaterials"} \cup
                     (IF matched
                      THEN {"matchedMaterial", "matchScore", "co2", "ubp", "kwh", "density"}
                      ELSE {}),
                     [BlankRow EXCEPT !.unit = unit,
                                      !.availableMaterials = item.availableMaterials,
                                      !.matchedMaterial = item.matchedMaterial,
                                      !.matchScore = item.matchScore,
                                      !.co2 = item.co2, !.ubp = item.ubp,
                                      !.kwh = item.kwh, !.density = item.density])

\* the request items of a unit change of a row of a file
FileItems ==
    { [RequestItem(MappedRow(file[i])) EXCEPT !.unit = unit] :
        file \in CsvFiles, i \in 1..MaxRows, unit \in {"kg", "m3"} }

\* the responses to the requests of one item of FileItems
FileItemResponse ==
    [item \in FileItems |-> [fetched \in EngineFetches |-> POST(<<item>>, fetched)]]

\* the response to the request of handleUnitChange for item
UnitResponse(item, fetched) ==
    IF item \in FileItems THEN FileItemResponse[item][fetched]
    ELSE POST(<<item>>, fetched)

\* the rows stay within MaxData when handleRowUpdate(index, ...) is applied
Fits(prevData, index) ==
    IF index >= Len(prevData) THEN Len(prevData) < MaxData ELSE TRUE

\* handleUnitChange(index, "m2") from the unit select of an ungrouped row
UnitChangeArea(index) ==
    /\ Shown /\ ~isGrouped
    /\ index < Len(filteredData)
    /\ filteredData[index + 1].unit # "m2"
    /\ materialData' = handleRowUpdate(materialData, index, AreaUpdates)
    /\ UNCHANGED <<pageVars, originalRowData, selectedRows, isGrouped,
                   pending, alerts, call, ret>>

\* handleUnitChange(index, unit) for kg or m3, up to its await
UnitChangeStart(index, unit) ==
    /\ Shown /\ ~isGrouped
    /\ index < Len(filteredData)
    /\ unit \in {"kg", "m3"} /\ filteredData[index + 1].unit # unit
    /\ Len(pending) < MaxPending
    /\ pending' = Append(pending,
                         Request("unit", <<materialData[index + 1]>>, index, unit, <<>>, 0))
    /\ UNCHANGED <<pageVars, originalRowData, materialData, selectedRows, isGrouped,
                   alerts, call, ret>>

\* handleUnitChange from its await on: onUpdateRow(index, updates)
UnitChangeResponse(p, fetched) ==
    /\ ~Crashed
    /\ pending[p].kind = "unit"
    /\ LET row == pending[p].rows[1]
           unit == pending[p].unit
           response == UnitResponse([RequestItem(row) EXCEPT !.unit = unit], fetched)
       IN  /\ Fits(materialData, pending[p].index)
           /\ materialData' = handleRowUpdate(materialData, pending[p].index,
                                              UnitUpdates(unit, response))
    /\ pending' = RemoveAt(pending, p)
    /\ UNCHANGED <<pageVars, originalRowData, alerts, call, ret>>
    /\ Table(selectedRows, isGrouped)

\* the text of a whole number in a template literal
NumberText(n) == ToString(n \div Scale)

\* newRow of handleAddReinforcement for the selected row object concreteRow
NewRow(concreteRow, actualIndex, kgPerM3, reinforcementMaterial) ==
    LET reinforcementQuantity == Mul(concreteRow.quantity, kgPerM3)
    IN  [ element  |-> concreteRow.element \o " - Bewehrung " \o NumberText(kgPerM3)
                       \o "kg/m3",
          material |-> "Armierungsstahl",
          quantity |-> reinforcementQuantity,
          unit     |-> "kg",
          kg       |-> reinforcementQuantity,
          co2      |-> Mul(reinforcementQuantity, reinforcementMaterial.co2),
          ubp      |-> Mul(reinforcementQuantity, reinforcementMaterial.ubp),
          kwh      |-> Mul(reinforcementQuantity, reinforcementMaterial.kwh),
          matchedMaterial |-> reinforcementMaterial.matchedMaterial,
          matchScore |-> IF reinforcementMaterial.matchScore = 0 THEN ExactScore
                         ELSE reinforcementMaterial.matchScore,
          availableMaterials |-> reinforcementMaterial.availableMaterials,
          density  |-> reinforcementMaterial.density,
          isReinforcementFor |-> actualIndex,
          origin   |-> NoOrigin ]

RECURSIVE NewRows(_, _, _, _)
\* newRows of handleAddReinforcement: the loop over selectedRows, which skips
\* what is no row object of unit m3 found in data
NewRows(data, selected, kgPerM3, reinforcementMaterial) ==
    IF selected = <<>> THEN <<>>
    ELSE LET concreteRow == Head(selected)
             actualIndex == FindIndex(data, concreteRow.row)
             skip == \/ concreteRow.kind # "object"
                     \/ concreteRow.row.unit # "m3"
                     \/ actualIndex = -1
         IN  (IF skip THEN <<>>
              ELSE <<NewRow(concreteRow.row, actualIndex, kgPerM3, reinforcementMaterial)>>)
             \o NewRows(data, Tail(selected), kgPerM3, reinforcementMaterial)

RECURSIVE AddEach(_, _, _, _)
\* newRows.forEach((newRow, index) => onUpdateRow(data.length + index, newRow))
AddEach(prevData, length, newRows, index) ==
    IF index >= Len(newRows) THEN prevData
    ELSE AddEach(handleRowUpdate(prevData, length + index,
                                 Updates(AllFields, newRows[index + 1])),
                 length, newRows, index + 1)

\* variant of IsReinforcement: every best match passes for reinforcing steel
IsReinforcement_Always(reinforcementMaterial) == TRUE

\* the test on the response of handleAddReinforcement
IsReinforcement(reinforcementMaterial) ==
    /\ reinforcementMaterial.matchedMaterial # NoMaterial
    /\ Includes(ToLowerCase(reinforcementMaterial.matchedMaterial), "armierung")

\* the rates typed into the dialog (kg of steel per m3)
Rates == { Num(1), Num(2) }

\* the response to the request of handleAddReinforcement, for every rate and
\* every outcome of the route's fetchLCAData
SteelResponse ==
    [kgPerM3 \in Rates |->
        [fetched \in SteelFetches |->
            POST(<<PostItem("Bewehrung", "Armierungsstahl", kgPerM3, "kg")>>, fetched)]]

\* handleAddReinforcement up to its await, with fewer than inFlight requests
\* under way
AddReinforcementStartWithin(kgPerM3, inFlight) ==
    /\ Shown
    /\ Len(selectedRows) > 0
    /\ Len(pending) < inFlight
    /\ pending' = Append(pending,
                         Request("steel", materialData, 0, "kg", selectedRows, kgPerM3))
    /\ UNCHANGED <<pageVars, originalRowData, materialData, selectedRows, isGrouped,
                   alerts, call, ret>>

\* handleAddReinforcement up to its await
AddReinforcementStart(kgPerM3) == AddReinforcementStartWithin(kgPerM3, MaxPending)

\* handleAddReinforcement from its await on: it returns when the response is
\* not ok, alerts and returns when the best match is no reinforcement steel,
\* and adds the new rows otherwise
AddReinforcementResponse(p, fetched) ==
    /\ ~Crashed
    /\ pending[p].kind = "steel"
    /\ pending' = RemoveAt(pending, p)
    /\ UNCHANGED <<pageVars, originalRowData, call, ret>>
    /\ LET data == pending[p].rows
           response == SteelResponse[pending[p].rate][fetched]
           cleared == IF pending[p].orphan THEN selectedRows ELSE <<>>
       IN  IF ~response.ok
           THEN /\ UNCHANGED <<materialData, alerts>>
                /\ Table(selectedRows, isGrouped)
           ELSE IF ~IsReinforcement(response.items[1])
           THEN /\ alerts' = 1
                /\ UNCHANGED materialData
                /\ Table(selectedRows, isGrouped)
           ELSE LET newRows == NewRows(data, pending[p].sel, pending[p].rate,
                                       response.items[1])
                IN  /\ Len(AddEach(materialData, Len(data), newRows, 0))
                         <= Max(MaxData, Len(csvData) + 1)
                    /\ materialData' = AddEach(materialData, Len(data), newRows, 0)
                    /\ UNCHANGED alerts
                    /\ Table(cleared, isGrouped)

Init == EngineInit /\ call = NoCall /\ ret = NoRet

\* the materials a dropdown can offer
Options == { MaterialOption(EngineCatalog[i]) : i \in 1..Len(EngineCatalog) }

\* Spec: files, ingest, selection and delete
Next ==
    \/ \E file \in CsvFiles : Upload(file)
    \/ ResetFile
    \/ ToggleColumnMapper
    \/ ColumnMapStart
    \/ \E p \in 1..Len(pending), fetched \in EngineFetches : ColumnMapResponse(p, fetched)
    \/ ToggleGrouped
    \/ SelectAll
    \/ \E g \in 1..Len(groupedData) : GroupCheckbox(g)
    \/ \E index \in 0..MaxData - 1 : RowCheckbox(index)
    \/ \E material \in Options : handleBulkUpdate(material)
    \/ handleDelete

Spec == Init /\ [][Next]_vars

\* C9 (as stated): whenever the table is shown, the original records and the
\* working rows are in lockstep: at every index the original record is the
\* one the working row was made from.
C9_StoresInLockstep ==
    Mounted =>
        \A i \in 1..Len(materialData) :
            i <= Len(originalRowData) => materialData[i].origin = originalRowData[i]

-----------------------------------------------------------------------------
(* Specification SpecUnit: ingest, manual override, unit change and delete *)

\* C13 (as stated): when the catalog call of an ingest fails, then once the
\* ingest has completed the error state is set and the working collection
\* holds the rows of the file.
C13_IngestFailureSurfaced ==
    [][ \A p \in 1..Len(pending), fetched \in EngineFetches :
          (~fetched.ok /\ ColumnMapResponse(p, fetched))
          => /\ error' # NoError
             /\ Len(materialData') = Len(pending[p].rows)
             /\ Len(materialData') > 0 ]_vars

Choices == { MaterialOption(Hochbaubeton) }

NextUnit ==
    \/ \E file \in CsvFiles : Upload(file)
    \/ ColumnMapStart
    \/ \E p \in 1..Len(pending), fetched \in EngineFetches : ColumnMapResponse(p, fetched)
    \/ ToggleGrouped
    \/ SelectAll
    \/ \E rowIndex \in 0..MaxData - 1, material \in Choices : MaterialSelect(rowIndex, material)
    \/ \E g \in 1..Len(groupedData), material \in Choices : GroupMaterialSelect(g, material)
    \/ \E material \in Choices : handleBulkUpdate(material)
    \/ handleDelete
    \/ \E index \in 0..MaxData - 1 : UnitChangeArea(index)
    \/ \E index \in 0..MaxData - 1, unit \in {"kg", "m3"} : UnitChangeStart(index, unit)
    \/ \E p \in 1..Len(pending), fetched \in EngineFetches : UnitChangeResponse(p, fetched)

SpecUnit == Init /\ [][NextUnit]_vars

\* C4 (as stated): in every reachable state of the working collection, every
\* row whose unit is kg has a mass kg equal to its quantity.
C4_KgRowsMassIsQuantity ==
    \A i \in 1..Len(materialData) :
        materialData[i].unit = "kg" => materialData[i].kg = materialData[i].quantity

RECURSIVE SumOf(_, _, _)
\* the sum of field over the rows at the indices from i on that are in members
SumOf(field, members, i) ==
    IF i > Len(filteredData) THEN 0
    ELSE IF i \in members
    THEN Add(CASE field = "quantity" -> filteredData[i].quantity
               [] field = "kg"  -> filteredData[i].kg
               [] field = "co2" -> filteredData[i].co2
               [] field = "ubp" -> filteredData[i].ubp
               [] field = "kwh" -> filteredData[i].kwh,
             SumOf(field, members, i + 1))
    ELSE SumOf(field, members, i + 1)

RECURSIVE SumGroupsKg(_, _)
SumGroupsKg(groups, g) ==
    IF g > Len(groups) THEN 0 ELSE Add(groups[g].kg, SumGroupsKg(groups, g + 1))

\* the rows of the pair (element, material) of a group
MembersOf(group) ==
    { i \in 1..Len(filteredData) :
        filteredData[i].element = group.element /\ filteredData[i].material = group.material }

\* C7 (as stated): whenever the group view is shown, every group has quantity,
\* kg, co2, ubp and kwh equal to the sum of that field over its member rows,
\* and the kg of all groups add up to the kg of all rows; so after every
\* mutation of the rows.
C7_GroupAggregates ==
    (Mounted /\ isGrouped) =>
        /\ \A g \in 1..Len(groupedData) :
              LET group == groupedData[g]
              IN  /\ group.quantity = SumOf("quantity", MembersOf(group), 1)
                  /\ group.kg = SumOf("kg", MembersOf(group), 1)
                  /\ group.co2 = SumOf("co2", MembersOf(group), 1)
                  /\ group.ubp = SumOf("ubp", MembersOf(group), 1)
                  /\ group.kwh = SumOf("kwh", MembersOf(group), 1)
        /\ SumGroupsKg(groupedData, 1) = SumOf("kg", 1..Len(filteredData), 1)

\* the row an override with material makes of row
Overridden(row, material) ==
    LET kg == IF row.unit = "m3" THEN Mul(row.quantity, material.density)
              ELSE row.quantity
    IN  [row EXCEPT !.matchedMaterial = material.name,
                    !.density = material.density,
                    !.kg = kg,
                    !.co2 = Mul(kg, material.co2),
                    !.ubp = Mul(kg, material.ubp),
                    !.kwh = Mul(kg, material.kwh)]

\* this step overrides exactly the rows at the indices named, and only them
OverridesOnly(named, material) ==
    /\ Len(materialData') = Len(materialData)
    /\ \A i \in 1..Len(materialData) :
          materialData'[i] = IF i \in named THEN Overridden(materialData[i], material)
                             ELSE materialData[i]

\* the rows a list of numbers names
NamedBy(indices) ==
    { i \in 1..Len(materialData) :
        \E j \in 1..Len(indices) : indices[j] = NumberEntry(i - 1) }

\* C10 (as stated): an override (from the dropdown of a row, of a group, or
\* over a selection of row numbers) gives every named row the chosen entry's
\* name and density, kg from the row's own quantity and unit, and co2, ubp,
\* kwh = kg x the entry's coefficients; every other row, every candidate list
\* and the number and order of the rows are unchanged.
C10_OverrideFrame ==
    [][ /\ \A g \in 1..Len(groupedData), material \in Choices :
              GroupMaterialSelect(g, material)
                  => OverridesOnly(MembersOf(groupedData[g]), material)
        /\ \A rowIndex \in 0..MaxData - 1, material \in Choices :
              MaterialSelect(rowIndex, material)
                  => OverridesOnly({FindIndex(materialData, filteredData[rowIndex + 1]) + 1},
                                   material)
        /\ \A material \in Choices :
              (handleBulkUpdate(material)
                 /\ \A j \in 1..Len(selectedRows) : selectedRows[j].kind = "number")
                  => OverridesOnly(NamedBy(selectedRows), material) ]_vars

\* C26: choosing an entry in the dropdown of a group header gives every member
\* row of the group (equal member rows included) the chosen entry as matched
\* entry, with its density, and leaves every row outside the group as it was.
C26_GroupOverrideReachesMembers ==
    [][ \A g \in 1..Len(groupedData), material \in Choices :
          GroupMaterialSelect(g, material)
              => /\ Len(materialData') = Len(materialData)
                 /\ \A i \in 1..Len(materialData) :
                       IF i \in MembersOf(groupedData[g])
                       THEN /\ materialData'[i].matchedMaterial = material.name
                            /\ materialData'[i].density = material.density
                       ELSE materialData'[i] = materialData[i] ]_vars

\* C29: applying the response of a unit-change request leaves the number of
\* rows as it is and changes no row other than the one the request was issued
\* for (the row made from the same uploaded record), whatever was deleted
\* while the request was in flight.
C29_UnitResponseOwnRow ==
    [][ \A p \in 1..Len(pending), fetched \in EngineFetches :
          (pending[p].kind = "unit" /\ UnitChangeResponse(p, fetched))
              => /\ Len(materialData') = Len(materialData)
                 /\ \A i \in 1..Len(materialData) :
                       materialData'[i] # materialData[i]
                           => materialData[i].origin = pending[p].rows[1].origin ]_vars

\* C23: in every state, a row whose unit is m2 has no matched entry and adds
\* nothing to the totals of co2, ubp and kwh (which are the sums of these
\* fields over all rows): its co2, ubp and kwh are 0.
C23_AreaRowsExcluded ==
    \A i \in 1..Len(materialData) :
        materialData[i].unit = "m2" =>
            /\ materialData[i].matchedMaterial \in {"", NoMaterial}
            /\ materialData[i].co2 = 0
            /\ materialData[i].ubp = 0
            /\ materialData[i].kwh = 0

-----------------------------------------------------------------------------
(* Specification SpecSteel: ingest, selection of groups and reinforcement *)

\* C11 (as stated): when the catalog call of a unit change to kg or m3 fails,
\* the row keeps its kg, co2, ubp, kwh, matched entry and candidate list, and
\* the failure is surfaced: the error state of the page is set.
C11_UnitFailureSurfaced ==
    [][ \A p \in 1..Len(pending), fetched \in EngineFetches :
          (UnitChangeResponse(p, fetched) /\ ~fetched.ok
             /\ pending[p].index < Len(materialData))
          => LET before == materialData[pending[p].index + 1]
                 after  == materialData'[pending[p].index + 1]
             IN  /\ after.kg = before.kg
                 /\ after.co2 = before.co2
                 /\ after.ubp = before.ubp
                 /\ after.kwh = before.kwh
                 /\ after.matchedMaterial = before.matchedMaterial
                 /\ after.availableMaterials = before.availableMaterials
                 /\ error' # NoError ]_vars

\* C12 (as stated): when a later command (a unit change or an override) has
\* changed a row while a unit-change request for it was in flight, the
\* response to that request leaves the row as the later command made it.
C12_NoStaleOverwrite ==
    [][ \A p \in 1..Len(pending), fetched \in EngineFetches :
          (UnitChangeResponse(p, fetched)
             /\ pending[p].index < Len(materialData)
             /\ materialData[pending[p].index + 1].origin = pending[p].rows[1].origin
             /\ materialData[pending[p].index + 1] # pending[p].rows[1])
          => materialData'[pending[p].index + 1]
                 = materialData[pending[p].index + 1] ]_vars

NextSteel ==
    \/ \E file \in CsvFiles : Upload(file)
    \/ ColumnMapStart
    \/ \E p \in 1..Len(pending), fetched \in EngineFetches : ColumnMapResponse(p, fetched)
    \/ ToggleGrouped
    \/ \E g \in 1..Len(groupedData) : GroupCheckbox(g)
    \/ \E index \in 0..MaxData - 1 : UnitChangeArea(index)
    \/ \E kgPerM3 \in Rates : AddReinforcementStart(kgPerM3)
    \/ \E p \in 1..Len(pending), fetched \in SteelFetches :
          AddReinforcementResponse(p, fetched)

SpecSteel == Init /\ [][NextSteel]_vars

\* the catalog entry of the name a row was matched to
EntryNamed(materials, name) ==
    materials[CHOOSE e \in 1..Len(materials) : materials[e].nameDE = name]

\* C5 (as stated): every row a derivation adds for a parent of volume V at
\* the rate k has unit kg, quantity = kg = V x k, and co2, ubp, kwh = V x k x
\* the matched steel entry's coefficient per kg.
C5_DerivedRowValues ==
    [][ \A p \in 1..Len(pending), fetched \in SteelFetches :
          AddReinforcementResponse(p, fetched) =>
              \A j \in Len(materialData) + 1 .. Len(materialData') :
                  LET row    == materialData'[j]
                      parent == pending[p].rows[row.isReinforcementFor + 1]
                      mass   == Mul(parent.quantity, pending[p].rate)
                      steel  == EntryNamed(fetched.materials, row.matchedMaterial)
                  IN  /\ row.unit = "kg"
                      /\ row.quantity = mass
                      /\ row.kg = mass
                      /\ row.co2 = Mul(mass, steel.gwpTotal)
                      /\ row.ubp = Mul(mass, steel.ubp21Total)
                      /\ row.kwh = Mul(mass, steel.primaryEnergyNonRenewableTotal) ]_vars

\* the lookup of the derivation fails, or its best match is no reinforcing steel
NoSteelFound(kgPerM3, fetched) ==
    IF ~fetched.ok THEN TRUE
    ELSE LET name == SteelResponse[kgPerM3][fetched].items[1].matchedMaterial
         IN  IF name = NoMaterial THEN TRUE
             ELSE ~Includes(ToLowerCase(name), "armierung")

\* the entries of a selection that are row objects of unit m3
VolumeRows(selected) ==
    { s \in 1..Len(selected) : selected[s].kind = "object" /\ selected[s].row.unit = "m3" }

\* the rows of after that are not rows of before: added or modified ones
Touched(before, after) ==
    { j \in 1..Len(after) : j > Len(before) \/ after[j] # before[j] }

\* C6: a derivation whose lookup fails or whose best match is no reinforcing
\* steel leaves the rows as they were (none added, none modified); one that
\* passes writes at most one row for each selected row of unit m3, each
\* named after such a row, so that selected rows of another unit get none.
C6_AbortIsAllOrNothing ==
    [][ \A p \in 1..Len(pending), fetched \in SteelFetches :
          AddReinforcementResponse(p, fetched) =>
              IF NoSteelFound(pending[p].rate, fetched)
              THEN materialData' = materialData
              ELSE /\ Cardinality(Touched(materialData, materialData'))
                          <= Cardinality(VolumeRows(pending[p].sel))
                   /\ \A j \in Touched(materialData, materialData') :
                          \E s \in VolumeRows(pending[p].sel) :
                              materialData'[j].element =
                                  pending[p].sel[s].row.element \o " - Bewehrung "
                                  \o NumberText(pending[p].rate) \o "kg/m3" ]_vars

\* a derivation was rejected with the alert, and the rows of unit m3 that are
\* selected have no derived row
C6_Witness ==
    /\ alerts = 1
    /\ pending = <<>>
    /\ VolumeRows(selectedRows) # {}
    /\ \A i \in 1..Len(materialData) : materialData[i].isReinforcementFor = Null

-----------------------------------------------------------------------------
(* Specification SpecParent: a derivation and deletions, over a file of    *)
(* three elements                                                          *)

\* a file with one row more than those of CsvFiles, of different elements
ParentFile ==
    [i \in 1..MaxRows + 1 |->
        IF i = MaxRows + 1 THEN CsvRow(ToString(i), "Pfeiler", "Beton C25", "1")
        ELSE IF i % 2 = 1 THEN CsvRow(ToString(i), "Wand", "Beton C25", "2.5")
        ELSE CsvRow(ToString(i), "Decke", "Glas", "4")]

NextParent ==
    \/ Upload(ParentFile)
    \/ ColumnMapStart
    \/ \E p \in 1..Len(pending) :
          ColumnMapResponse(p, [ok |-> TRUE, materials |-> EngineCatalog])
    \/ ToggleGrouped
    \/ \E g \in 1..Len(groupedData) : GroupCheckbox(g)
    \/ \E index \in 0..MaxData : RowCheckbox(index)
    \/ handleDelete
    \/ AddReinforcementStart(Num(1))
    \/ \E p \in 1..Len(pending) :
          AddReinforcementResponse(p, [ok |-> TRUE, materials |-> EngineCatalog])

SpecParent == Init /\ [][NextParent]_vars

\* the row is the row that derived was derived from, by its name
IsParentOf(row, derived) ==
    \E kgPerM3 \in Rates :
        derived.element = row.element \o " - Bewehrung " \o NumberText(kgPerM3) \o "kg/m3"

\* C17 (as stated): as long as the row a derived row was derived from is
\* among the rows, isReinforcementFor of the derived row is the index of
\* that row.
C17_ParentResolvable ==
    \A j \in 1..Len(materialData) :
        materialData[j].isReinforcementFor # Null =>
            \A i \in 1..Len(materialData) :
                IsParentOf(materialData[i], materialData[j]) =>
                    /\ materialData[j].isReinforcementFor < Len(materialData)
                    /\ IsParentOf(materialData[materialData[j].isReinforcementFor + 1],
                                  materialData[j])

-----------------------------------------------------------------------------
(* Specification of groupData alone, over rows as the ingest makes them *)

MaxGroupRows == 2

\* the records of the files: names with and without a hyphen
GroupCells ==
    { CsvRow("1", element, material, quantity) :
        element \in {"Wand", "Wand-A"}, material \in {"Beton", "A-Beton"},
        quantity \in {"1", "2"} }

GroupFiles ==
    UNION { [1..n -> GroupCells] : n \in 1..MaxGroupRows }

\* the working rows after the ingest of file
IngestedRows(file) ==
    LET data == [i \in 1..Len(file) |-> MappedRow(file[i])]
        response == POST([i \in 1..Len(data) |-> RequestItem(data[i])],
                         [ok |-> TRUE, materials |-> EngineCatalog])
    IN  FetchLCAData(data, response).rows

InitGroup ==
    /\ EngineInit
    /\ call \in { [fn |-> "group", data |-> IngestedRows(file)] : file \in GroupFiles }
    /\ ret = NoRet

ApplyGroup ==
    /\ call.fn = "group"
    /\ ~ret.done
    /\ ret' = [done |-> TRUE, groups |-> groupData(call.data)]
    /\ UNCHANGED <<call, engineVars>>

NextGroup == ApplyGroup

SpecGroup == InitGroup /\ [][NextGroup]_vars

\* the row is one of the rows of the group
InGroup(group, row) == \E m \in 1..Len(group.rows) : group.rows[m] = row

\* C8 (as stated): two rows are in the same group exactly when their element
\* and their material are both equal.
C8_GroupsArePairs ==
    (ret.done /\ call.fn = "group") =>
        \A i, j \in 1..Len(call.data) :
            (\E g \in 1..Len(ret.groups) :
                 InGroup(ret.groups[g], call.data[i]) /\ InGroup(ret.groups[g], call.data[j]))
            <=> (call.data[i].element = call.data[j].element
                   /\ call.data[i].material = call.data[j].material)

\* the indices that the list indices names among those of data: a boolean
\* counts as the number it is converted to, a row object names none
NamedIndices(data, indices) ==
    { i \in 0..Len(data) - 1 :
        \E j \in 1..Len(indices) :
            indices[j].kind # "object" /\ indices[j].index = i }

RECURSIVE Without(_, _, _)
\* data without the rows at the indices named, from index i on
Without(data, named, i) ==
    IF i >= Len(data) THEN <<>>
    ELSE (IF i \in named THEN <<>> ELSE <<data[i + 1]>>) \o Without(data, named, i + 1)

\* C27: a delete removes from the working collection exactly the rows at the
\* distinct in-range indices that its list names, also when the list repeats
\* an index or holds one that is out of range; the other rows stay, in their
\* order.
C27_DeleteExactlyNamed ==
    [][ handleDelete =>
          materialData' = Without(materialData,
                                  NamedIndices(materialData, selectedRows), 0) ]_vars

-----------------------------------------------------------------------------
(* Specification SpecOverlap: derivations that overlap, and deletes between *)
(* the start of a derivation and its response                               *)

MaxOverlap == 2

NextOverlap ==
    \/ \E file \in CsvFiles : Upload(file)
    \/ ColumnMapStart
    \/ \E p \in 1..Len(pending) :
          ColumnMapResponse(p, [ok |-> TRUE, materials |-> EngineCatalog])
    \/ \E g \in 1..Len(groupedData) : GroupCheckbox(g)
    \/ handleDelete
    \/ AddReinforcementStartWithin(Num(1), MaxOverlap)
    \/ \E p \in 1..Len(pending) :
          AddReinforcementResponse(p, [ok |-> TRUE, materials |-> EngineCatalog])

SpecOverlap == Init /\ [][NextOverlap]_vars

\* the rows the derivation of request p is to add, given what the route fetched
DerivedRows(p, fetched) ==
    LET response == SteelResponse[pending[p].rate][fetched]
    IN  IF response.ok /\ IsReinforcement(response.items[1])
        THEN NewRows(pending[p].rows, pending[p].sel, pending[p].rate, response.items[1])
        ELSE <<>>

\* C28: applying the response of a derivation leaves every row of the working
\* collection as it is and adds the derived rows of that derivation after
\* them, one per qualifying parent, also when rows were added or deleted since
\* the derivation was started; so two overlapping derivations of k1 and k2
\* parents add k1 + k2 rows.
C28_DerivationOnlyAppends ==
    [][ \A p \in 1..Len(pending), fetched \in SteelFetches :
          (pending[p].kind = "steel" /\ AddReinforcementResponse(p, fetched))
              => materialData' = materialData \o DerivedRows(p, fetched) ]_vars

-----------------------------------------------------------------------------
(* Specification of the per-area toggle alone: toggleM2Calculation and     *)
(* calculateValues, over rows with and without the optional field area of  *)
(* MaterialData (no handler of the page sets it)                           *)

MaxToggles == 2

\* a / b of two JS numbers, b > 0
Div(a, b) ==
    IF a \in {NaN, Undefined} \/ b \in {NaN, Undefined} THEN NaN
    ELSE (OrZero(a) * Scale) \div OrZero(b)

\* item.area && item.area > 0
HasArea(item) == IF "area" \in DOMAIN item THEN item.area > 0 ELSE FALSE

\* m2Calculations as the set of the indices whose flag is true;
\* toggleM2Calculation(index): [index]: !prev[index]
toggleM2Calculation(prev, index) ==
    IF index \in prev THEN prev \ {index} ELSE prev \cup {index}

\* variant of calculateValues: the stored values whatever the flag
calculateValues_Stored(item, index, m2Calculations) ==
    [quantity |-> item.quantity, kg |-> item.kg,
     co2 |-> item.co2, ubp |-> item.ubp, kwh |-> item.kwh]

\* calculateValues(item, index)
calculateValues(item, index, m2Calculations) ==
    IF index \in m2Calculations /\ HasArea(item)
    THEN [quantity |-> Div(item.quantity, item.area),
          kg  |-> Div(item.kg, item.area),
          co2 |-> Div(item.co2, item.area),
          ubp |-> Div(item.ubp, item.area),
          kwh |-> Div(item.kwh, item.area)]
    ELSE [quantity |-> item.quantity, kg |-> item.kg,
          co2 |-> item.co2, ubp |-> item.ubp, kwh |-> item.kwh]

\* the rows of the ingest of one record, without area, with area 0 and with
\* area 0.5
AreaRows ==
    LET rows == { IngestedRows(<<CsvFiles_record>>)[1] :
                    CsvFiles_record \in { file[i] : file \in CsvFiles, i \in 1..MaxRows } }
    IN  rows \cup { row @@ [area |-> area] : row \in rows, area \in {0, Num(1) \div 2} }

InitArea ==
    /\ EngineInit
    /\ call \in { [fn |-> "area", data |-> data] :
                    data \in UNION { [1..n -> AreaRows] : n \in 1..MaxRows } }
    /\ ret = [done |-> FALSE, data |-> call.data, m2Calculations |-> {},
              toggled |-> <<>>]

\* a click on the button "Absolut" / "Pro m2" of the row at index
ToggleArea(index) ==
    /\ call.fn = "area"
    /\ index < Len(ret.data)
    /\ Len(ret.toggled) < MaxToggles
    /\ ret' = [ret EXCEPT !.done = TRUE,
                          !.m2Calculations = toggleM2Calculation(@, index),
                          !.toggled = Append(@, index)]
    /\ UNCHANGED <<call, engineVars>>

NextArea == \E index \in 0..MaxRows - 1 : ToggleArea(index)

SpecArea == InitArea /\ [][NextArea]_vars

RECURSIVE Toggles(_, _)
\* how often index was toggled
Toggles(toggled, index) ==
    IF toggled = <<>> THEN 0
    ELSE (IF Head(toggled) = index THEN 1 ELSE 0) + Toggles(Tail(toggled), index)

-----------------------------------------------------------------------------
(* Specification of the export: the search box, the column sort, the       *)
(* select-all box and handleExportCSV of ResultsTable, and the total that   *)
(* TotalsSummary shows, over the props of the table after an ingest         *)

\* csvHeaders of the page, passed as originalHeaders
originalHeaders == <<"Pos", "Bauteil", "Material", "Menge">>

\* useState sortConfig: null
NoSortConfig == [key |-> "<null>", direction |-> "asc"]

\* the search terms typed and the columns sorted by
SearchTerms == {"", "Wand", "decke"}

SortKeys == {"quantity", "co2"}

\* a catalog whose entry of concrete has density 2 and one unit of each
\* impact per kg
ExportCatalog == <<Entry("Hochbaubeton")>>

\* the files exported from: those of CsvFiles, and walls of 0.2 and 0.1 m3
ExportFiles ==
    CsvFiles \cup
    { [i \in 1..MaxRows |->
          IF i % 2 = 1 THEN CsvRow(ToString(i), "Wand", "Beton C25", "0.2")
          ELSE CsvRow(ToString(i), "Mauer", "Beton C25", "0.1")] }

\* the working rows after the ingest of file with the catalog materials
IngestedFrom(file, materials) ==
    LET data == [i \in 1..Len(file) |-> MappedRow(file[i])]
        response == POST([i \in 1..Len(data) |-> RequestItem(data[i])],
                         [ok |-> TRUE, materials |-> materials])
    IN  FetchLCAData(data, response).rows

\* the filter of filteredData
MatchesSearch(row, searchTerm) ==
    LET term == ToLowerCase(searchTerm)
    IN  \/ Includes(ToLowerCase(row.element), term)
        \/ Includes(ToLowerCase(row.material), term)
        \/ /\ row.matchedMaterial \notin {NoMaterial, ""}
           /\ Includes(ToLowerCase(row.matchedMaterial), term)

\* a[sortConfig.key] || 0
SortValue(row, key) == NumOrZero(row[key])

\* the comparator of filtered.sort is negative for (a, b)
SortsBefore(a, b, sortConfig) ==
    IF sortConfig.direction = "asc"
    THEN SortValue(a, sortConfig.key) < SortValue(b, sortConfig.key)
    ELSE SortValue(a, sortConfig.key) > SortValue(b, sortConfig.key)

RECURSIVE SortInsert(_, _, _)
\* row put before the first element it sorts before (Array.prototype.sort is
\* stable)
SortInsert(sorted, row, sortConfig) ==
    IF sorted = <<>> THEN <<row>>
    ELSE IF SortsBefore(row, Head(sorted), sortConfig)
         THEN <<row>> \o sorted
         ELSE <<Head(sorted)>> \o SortInsert(Tail(sorted), row, sortConfig)

RECURSIVE SortRows(_, _, _)
SortRows(rows, sorted, sortConfig) ==
    IF rows = <<>> THEN sorted
    ELSE SortRows(Tail(rows), SortInsert(sorted, Head(rows), sortConfig), sortConfig)

\* the useMemo filteredData of ResultsTable
FilteredData(data, searchTerm, sortConfig) ==
    LET filtered == IF searchTerm # ""
                    THEN SelectSeq(data, LAMBDA row : MatchesSearch(row, searchTerm))
                    ELSE data
    IN  IF sortConfig # NoSortConfig
        THEN SortRows(filtered, <<>>, sortConfig)
        ELSE filtered

RECURSIVE Zeros(_)
Zeros(n) == IF n <= 0 THEN "" ELSE "0" \o Zeros(n - 1)

\* Number.prototype.toFixed(digits), digits >= 1, for a number of at most
\* one decimal
ToFixed(n, digits) ==
    IF n \in {NaN, Null, Undefined} THEN "NaN"
    ELSE IF n < 0 THEN "-" \o ToString((-n) \div Scale) \o "." \o ToString((-n) % Scale) \o Zeros(digits - 1)
    ELSE ToString(n \div Scale) \o "." \o ToString(n % Scale) \o Zeros(digits - 1)

RECURSIVE GroupThousands(_)
\* the digits in groups of three
GroupThousands(ds) ==
    IF Len(ds) <= 3 THEN ds
    ELSE GroupThousands(SubSeq(ds, 1, Len(ds) - 3)) \o "'" \o SubSeq(ds, Len(ds) - 2, Len(ds))

\* toLocaleString("de-CH", {maximumFractionDigits: 0}) of a number >= 0:
\* rounded to an integer, halves up, the groups separated (by U+2019, here ')
ToLocaleString0(n) ==
    IF n \in {NaN, Undefined} THEN "NaN"
    ELSE GroupThousands(ToString((OrZero(n) + Scale \div 2) \div Scale))

RECURSIVE DoubleQuotes(_)
\* stringValue.replace(/"/g, '""')
DoubleQuotes(s) ==
    IF s = "" THEN ""
    ELSE (IF Head(s) = "\"" THEN "\"\"" ELSE Head(s)) \o DoubleQuotes(Tail(s))

\* escapeCSV of handleExportCSV
escapeCSV(stringValue) ==
    IF Includes(stringValue, ",") \/ Includes(stringValue, "\"") \/ Includes(stringValue, "'")
    THEN "\"" \o DoubleQuotes(stringValue) \o "\""
    ELSE stringValue

RECURSIVE Join(_, _)
\* Array.prototype.join
Join(cells, sep) ==
    IF cells = <<>> THEN ""
    ELSE IF Len(cells) = 1 THEN cells[1]
    ELSE cells[1] \o sep \o Join(Tail(cells), sep)

\* the header line of the export
ExportHeaders ==
    [h \in 1..Len(originalHeaders) |-> escapeCSV(originalHeaders[h])] \o
    <<"KBOB Material", "CO2 pro kg (kg CO2 eq/kg)", "CO2 Total (kg CO2 eq)",
      "UBP pro kg (pts/kg)", "UBP Total (pts)", "kWh pro kg (kWh/kg)",
      "kWh Total (kWh)">>

\* the cells of the original columns: originalDataRow[header] || ""
OriginalCells(originalDataRow) ==
    [h \in 1..Len(originalHeaders) |-> escapeCSV(originalDataRow[originalHeaders[h]])]

\* row.kg > 0 ? value / row.kg : 0
PerKg(value, kg) == IF kg > 0 THEN Div(value, kg) ELSE 0

\* the cells of the result columns
ResultCells(row) ==
    << escapeCSV(IF row.matchedMaterial = NoMaterial THEN "" ELSE row.matchedMaterial),
       escapeCSV(ToFixed(PerKg(row.co2, row.kg), 3)),
       escapeCSV(ToFixed(row.co2, 2)),
       escapeCSV(ToFixed(PerKg(row.ubp, row.kg), 3)),
       escapeCSV(ToFixed(row.ubp, 2)),
       escapeCSV(ToFixed(PerKg(row.kwh, row.kg), 3)),
       escapeCSV(ToFixed(row.kwh, 2)) >>

\* rowData of the row at index of view
ExportRowData(view, originals, index) ==
    (IF index < Len(originals)
     THEN OriginalCells(originals[index + 1])
     ELSE [h \in 1..Len(originalHeaders) |-> ""])
    \o ResultCells(view[index + 1])

\* the cells that handleExportCSV writes: the headers, then the rows of view
ExportCells(view, originals) ==
    <<ExportHeaders>> \o
    [j \in 1..Len(view) |-> ExportRowData(view, originals, j - 1)]

\* totalCO2 of TotalsSummary
RECURSIVE TotalCO2(_)
TotalCO2(view) ==
    IF view = <<>> THEN 0 ELSE Add(TotalCO2(SubSeq(view, 1, Len(view) - 1)), view[Len(view)].co2)

\* the value of the metric "CO2 Emissions", without its unit
ShownCO2(view) == ToLocaleString0(TotalCO2(view))

InitExport ==
    /\ EngineInit
    /\ call \in { [fn |-> "export", data |-> IngestedFrom(file, materials),
                   originalRowData |-> file] :
                    file \in ExportFiles, materials \in {EngineCatalog, ExportCatalog} }
    /\ ret = [done |-> FALSE, searchTerm |-> "", sortConfig |-> NoSortConfig,
              selectedRows |-> <<>>, cells |-> <<>>, csvContent |-> <<>>]

\* filteredData of the table in the export specification
ExportView == FilteredData(call.data, ret.searchTerm, ret.sortConfig)

\* typing in the search box
setSearchTerm(term) ==
    /\ call.fn = "export"
    /\ term # ret.searchTerm
    /\ ret' = [ret EXCEPT !.searchTerm = term]
    /\ UNCHANGED <<call, engineVars>>

\* a click on a column header
handleSort(key) ==
    /\ call.fn = "export"
    /\ ret' = [ret EXCEPT !.sortConfig =
                  [key |-> key,
                   direction |-> IF @ # NoSortConfig /\ @.key = key /\ @.direction = "asc"
                                 THEN "desc" ELSE "asc"]]
    /\ UNCHANGED <<call, engineVars>>

\* the box in the table header: handleSelectAll(e.target.checked)
handleSelectAll ==
    /\ call.fn = "export"
    /\ LET isChecked == ~(Len(ret.selectedRows) = Len(ExportView))
       IN  ret' = [ret EXCEPT !.selectedRows =
                      IF isChecked
                      THEN [i \in 1..Len(ExportView) |-> NumberEntry(i - 1)]
                      ELSE <<>>]
    /\ UNCHANGED <<call, engineVars>>

\* the button "Export CSV"
handleExportCSV ==
    /\ call.fn = "export"
    /\ LET cells == ExportCells(ExportView, call.originalRowData)
       IN  ret' = [ret EXCEPT !.done = TRUE,
                              !.cells = cells,
                              !.csvContent = [j \in 1..Len(cells) |-> Join(cells[j], ",")]]
    /\ UNCHANGED <<call, engineVars>>

NextExport ==
    \/ \E term \in SearchTerms : setSearchTerm(term)
    \/ \E key \in SortKeys : handleSort(key)
    \/ handleSelectAll
    \/ handleExportCSV

SpecExport == InitExport /\ [][NextExport]_vars

\* the rows of data that the entries of selectedRows designate in view
SelectedOf(data, view, sel) ==
    SelectSeq(data, LAMBDA row :
        \E j \in 1..Len(sel) :
            /\ sel[j].kind = "number"
            /\ sel[j].index < Len(view)
            /\ view[sel[j].index + 1] = row)

\* the rows an export is to write, in the order of data: the selected rows
\* when there is a selection, the rows of the table otherwise
RowsToExport(data, view, sel) ==
    IF sel # <<>> THEN SelectedOf(data, view, sel)
    ELSE SelectSeq(data, LAMBDA row : \E j \in 1..Len(view) : view[j] = row)

\* C19: an export writes the header line and then exactly one line per row
\* to export, in the order of the working collection: the selected rows when
\* a selection exists, the rows of the table otherwise; each line holds the
\* original columns of the record its row was made from, followed by the
\* result columns of that same row, also under a search filter or a sort.
C19_ExportRowsAndPairing ==
    [][ handleExportCSV =>
          LET rows == RowsToExport(call.data, ExportView, ret.selectedRows)
          IN  /\ Len(ret'.csvContent) = Len(rows) + 1
              /\ \A j \in 1..Len(rows) :
                    ret'.csvContent[j + 1] =
                        Join(OriginalCells(rows[j].origin) \o ResultCells(rows[j]), ",")
      ]_vars

RECURSIVE Ungrouped(_)
\* s without its group separators
Ungrouped(s) ==
    IF s = "" THEN ""
    ELSE (IF Head(s) = "'" THEN "" ELSE Head(s)) \o Ungrouped(Tail(s))

\* the number written as s (digits, with at most two decimals), in hundredths
Hundredths(s) ==
    LET t    == Ungrouped(s)
        ip   == DigitRun(t)
        rest == SubSeq(t, Len(ip) + 1, Len(t))
        fp   == IF rest # "" /\ Head(rest) = "." THEN DigitRun(Tail(rest)) ELSE ""
    IN  IntValue(ip, 0) * 100 + FracValue(fp, 10)

RECURSIVE SumColumn(_, _)
\* the sum of column col of the exported rows, in hundredths
SumColumn(cells, col) ==
    IF Len(cells) <= 1 THEN 0
    ELSE SumColumn(SubSeq(cells, 1, Len(cells) - 1), col)
         + Hundredths(cells[Len(cells)][col])

\* C20: the values of the column "CO2 Total" of an export, each written with
\* two decimals, add up to the total of the metric "CO2 Emissions" shown for
\* the rows of the table at that moment, compared in hundredths.
C20_ExportRoundTrip ==
    [][ handleExportCSV =>
          SumColumn(ret'.cells, Len(originalHeaders) + 3)
            = Hundredths(ShownCO2(ExportView))
      ]_vars

=============================================================================
